---- MODULE Spec2Model ----
(***************************************************************************)
(* Token-level automata of the repository: HTTPCodeFSM                     *)
(* (src/src/fsm/http_fsm.py) and LaTeXMathFSM                              *)
(* (src/src/fsm/latex_math_fsm.py).                                        *)
(*                                                                         *)
(* A Python str is a sequence of one-character strings, so that            *)
(* startswith, slicing, strip and int() are computed, not assumed.         *)
(* An automaton instance is a record of its fields; every method is an     *)
(* operator from the instance (and its argument) to the returned value     *)
(* and the instance after the call.                                        *)
(***************************************************************************)
EXTENDS Integers, Sequences, FiniteSets, TLC

VARIABLES
    http,   \* the HTTPCodeFSM instance: state, current_code, path
    latex,  \* the LaTeXMathFSM instance: state, counters, flavor, path, ...
    fsm,    \* the FiniteStateMachine instance: states, transitions, history
    attempts, \* two validation attempts, each with an instance of its own
    frame,  \* the local variables of the function whose loop is running
    op,     \* name of the last method called
    arg,    \* its argument (a str; empty for reset)
    ret,    \* its return value (TRUE for the methods returning None)
    pre     \* the instance as it was when that call started

vars == <<http, latex, fsm, attempts, frame, op, arg, ret, pre>>

(***************************************************************************)
(* Bounds of the exploration.                                              *)
(***************************************************************************)
\* longest LaTeXMathFSM.path explored
MaxPath == 6
\* largest bracket/paren depth explored
MaxDepth == 1
\* largest brace depth explored: a brace group nested in a brace group
MaxBrace == 2
\* longest str offered to tokenize
MaxStrLen == 5

(***************************************************************************)
(* str helpers.                                                            *)
(***************************************************************************)
\* ASCII decimal digits, in order
DigitSeq == <<"0","1","2","3","4","5","6","7","8","9">>

AsciiDigits == {DigitSeq[i] : i \in 1..10}

\* characters c with c.isdigit(): the ASCII digits and, of the characters
\* modelled, the superscript two
IsDigitChar(c) == c \in AsciiDigits \cup {"²"}

\* characters c with c.isspace()
IsSpaceChar(c) == c \in {" ", "\t", "\n"}

\* s.isdigit(): non-empty and every character is a digit
IsDigit(s) == Len(s) > 0 /\ \A i \in 1..Len(s) : IsDigitChar(s[i])

\* s.startswith(prefix)
StartsWith(s, prefix) ==
    Len(prefix) <= Len(s) /\ SubSeq(s, 1, Len(prefix)) = prefix

\* s.strip(): drop leading and trailing whitespace
RECURSIVE LStrip(_)
LStrip(s) ==
    IF Len(s) > 0 /\ IsSpaceChar(s[1]) THEN LStrip(Tail(s)) ELSE s

RECURSIVE RStrip(_)
RStrip(s) ==
    IF Len(s) > 0 /\ IsSpaceChar(s[Len(s)])
    THEN RStrip(SubSeq(s, 1, Len(s) - 1)) ELSE s

Strip(s) == RStrip(LStrip(s))

\* value of an ASCII digit character
DigitVal(c) == CHOOSE i \in 0..9 : DigitSeq[i + 1] = c

\* int(s) for a str of ASCII digits
RECURSIVE StrToInt(_)
StrToInt(s) ==
    IF Len(s) = 0 THEN 0
    ELSE 10 * StrToInt(SubSeq(s, 1, Len(s) - 1)) + DigitVal(s[Len(s)])

\* str(n) for n >= 0
RECURSIVE IntToStr(_)
IntToStr(n) ==
    IF n < 10 THEN <<DigitSeq[n + 1]>>
    ELSE IntToStr(n \div 10) \o <<DigitSeq[(n % 10) + 1]>>

\* x in lst, for a list lst
InList(x, lst) == \E i \in 1..Len(lst) : lst[i] = x

(***************************************************************************)
(* HTTPCodeFSM                                                             *)
(***************************************************************************)
VALID_CODES == {
    100, 101, 102, 103,
    200, 201, 202, 203, 204, 205, 206, 207, 208, 226,
    300, 301, 302, 303, 304, 305, 307, 308,
    400, 401, 402, 403, 404, 405, 406, 407, 408, 409,
    410, 411, 412, 413, 414, 415, 416, 417, 418, 421,
    422, 423, 424, 425, 426, 428, 429, 431, 451,
    500, 501, 502, 503, 504, 505, 506, 507, 508, 510, 511
}

\* HTTPCodeFSM.reset: the instance after __init__ or reset()
HTTPReset ==
    [state |-> "start", current_code |-> <<>>, path |-> <<"start">>]

get_valid_first_digits == <<<<"1">>, <<"2">>, <<"3">>, <<"4">>, <<"5">>>>

\* get_valid_second_digits keeping only the digits that some registered
\* code has in second place after first_digit
get_valid_second_digits_Filtered(first_digit) ==
    IF InList(first_digit, <<<<"1">>, <<"2">>, <<"3">>, <<"4">>, <<"5">>>>)
    THEN SelectSeq([i \in 1..10 |-> IntToStr(i - 1)],
                   LAMBDA d : \E code \in VALID_CODES :
                                  code \div 10 = StrToInt(first_digit \o d))
    ELSE <<>>

get_valid_second_digits(first_digit) ==
    IF InList(first_digit, <<<<"1">>, <<"2">>, <<"3">>, <<"4">>, <<"5">>>>)
    THEN [i \in 1..10 |-> IntToStr(i - 1)]
    ELSE <<>>

\* str(code) for code in VALID_CODES
VALID_CODE_STRS == {IntToStr(code) : code \in VALID_CODES}

\* sorted(lst) for a list of distinct one-digit strs, given as their set
SortedDigits(digits) ==
    SelectSeq([i \in 1..10 |-> <<DigitSeq[i]>>], LAMBDA d : d \in digits)

\* get_valid_third_digits reading the second character of the code (index 1
\* for index 2)
get_valid_third_digits_SecondChar(first_two) ==
    LET valid_thirds == {<<code[2]>> : code \in {c \in VALID_CODE_STRS : StartsWith(c, first_two)}}
    IN  SortedDigits(valid_thirds)

\* get_valid_third_digits without the filter on VALID_CODES
get_valid_third_digits_Unfiltered(first_two) ==
    [i \in 1..10 |-> IntToStr(i - 1)]

\* the third characters of the codes that start with first_two, each once,
\* sorted
get_valid_third_digits(first_two) ==
    LET valid_thirds == {<<code[3]>> : code \in {c \in VALID_CODE_STRS : StartsWith(c, first_two)}}
    IN  SortedDigits(valid_thirds)

\* process_digit accumulating the digit before it checks it
process_digit_AppendsBeforeCheck(self, digit) ==
    IF ~IsDigit(digit) THEN [ok |-> FALSE, self |-> self]
    ELSE LET s1 == [self EXCEPT !.current_code = self.current_code \o digit] IN
        IF self.state = "start" THEN
            IF InList(digit, get_valid_first_digits)
            THEN [ok |-> TRUE, self |-> [s1 EXCEPT !.state = "first_digit",
                                                 !.path = Append(self.path, "first_digit")]]
            ELSE [ok |-> FALSE, self |-> s1]
        ELSE IF self.state = "first_digit" THEN
            IF InList(digit, get_valid_second_digits(self.current_code))
            THEN [ok |-> TRUE, self |-> [s1 EXCEPT !.state = "second_digit",
                                                 !.path = Append(self.path, "second_digit")]]
            ELSE [ok |-> FALSE, self |-> s1]
        ELSE IF self.state = "second_digit" THEN
            IF InList(digit, get_valid_third_digits(self.current_code))
            THEN [ok |-> TRUE, self |-> [s1 EXCEPT !.state = "third_digit",
                                                 !.path = Append(self.path, "third_digit")]]
            ELSE [ok |-> FALSE, self |-> s1]
        ELSE [ok |-> FALSE, self |-> self]

\* process_digit assigning the second digit to current_code instead of
\* appending it
process_digit_OverwritesCode(self, digit) ==
    IF ~IsDigit(digit) THEN [ok |-> FALSE, self |-> self]
    ELSE IF self.state = "start" THEN
        IF InList(digit, get_valid_first_digits)
        THEN [ok |-> TRUE,
              self |-> [state |-> "first_digit", current_code |-> digit,
                        path |-> Append(self.path, "first_digit")]]
        ELSE [ok |-> FALSE, self |-> self]
    ELSE IF self.state = "first_digit" THEN
        IF InList(digit, get_valid_second_digits(self.current_code))
        THEN [ok |-> TRUE,
              self |-> [state |-> "second_digit",
                        current_code |-> digit,
                        path |-> Append(self.path, "second_digit")]]
        ELSE [ok |-> FALSE, self |-> self]
    ELSE IF self.state = "second_digit" THEN
        IF InList(digit, get_valid_third_digits(self.current_code))
        THEN [ok |-> TRUE,
              self |-> [state |-> "third_digit",
                        current_code |-> self.current_code \o digit,
                        path |-> Append(self.path, "third_digit")]]
        ELSE [ok |-> FALSE, self |-> self]
    ELSE [ok |-> FALSE, self |-> self]

\* HTTPCodeFSM.process_digit: [ok |-> returned value, self |-> instance after]
process_digit(self, digit) ==
    IF ~IsDigit(digit) THEN [ok |-> FALSE, self |-> self]
    ELSE IF self.state = "start" THEN
        IF InList(digit, get_valid_first_digits)
        THEN [ok |-> TRUE,
              self |-> [state |-> "first_digit", current_code |-> digit,
                        path |-> Append(self.path, "first_digit")]]
        ELSE [ok |-> FALSE, self |-> self]
    ELSE IF self.state = "first_digit" THEN
        IF InList(digit, get_valid_second_digits(self.current_code))
        THEN [ok |-> TRUE,
              self |-> [state |-> "second_digit",
                        current_code |-> self.current_code \o digit,
                        path |-> Append(self.path, "second_digit")]]
        ELSE [ok |-> FALSE, self |-> self]
    ELSE IF self.state = "second_digit" THEN
        IF InList(digit, get_valid_third_digits(self.current_code))
        THEN [ok |-> TRUE,
              self |-> [state |-> "third_digit",
                        current_code |-> self.current_code \o digit,
                        path |-> Append(self.path, "third_digit")]]
        ELSE [ok |-> FALSE, self |-> self]
    ELSE [ok |-> FALSE, self |-> self]

\* generate_valid_completion completing two digits with a zero, whatever
\* the registered codes are
generate_valid_completion_ZeroFill(self) ==
    IF self.state = "start" THEN <<<<"2", "0", "0">>>>
    ELSE IF self.state = "first_digit"
    THEN <<self.current_code \o <<"0", "0">>>>
    ELSE IF self.state = "second_digit"
    THEN <<self.current_code \o <<"0">>>>
    ELSE <<>>

\* HTTPCodeFSM.generate_valid_completion: the Optional[str] returned, as the
\* empty tuple for None and a one-element tuple for a str
generate_valid_completion(self) ==
    IF self.state = "start" THEN <<<<"2", "0", "0">>>>
    ELSE IF self.state = "first_digit"
    THEN LET possibilities == get_valid_second_digits(self.current_code)
             found == SelectSeq(<<<<"0">>, <<"1">>, <<"2">>, <<"3">>, <<"4">>>>,
                        LAMBDA second :
                            /\ InList(second, possibilities)
                            /\ get_valid_third_digits(self.current_code \o second) # <<>>)
         IN  IF found = <<>> THEN <<>>
             ELSE LET test_code == self.current_code \o found[1]
                  IN  <<test_code \o get_valid_third_digits(test_code)[1]>>
    ELSE IF self.state = "second_digit"
    THEN LET thirds == get_valid_third_digits(self.current_code)
         IN  IF thirds = <<>> THEN <<>> ELSE <<self.current_code \o thirds[1]>>
    ELSE <<>>

\* the loop of process_input over the characters of input_str: stops at the
\* first rejected digit
RECURSIVE HTTPFold(_, _)
HTTPFold(self, s) ==
    IF Len(s) = 0 THEN [ok |-> TRUE, self |-> self]
    ELSE LET r == process_digit(self, <<Head(s)>>)
         IN  IF r.ok THEN HTTPFold(r.self, Tail(s))
             ELSE [ok |-> FALSE, self |-> r.self]

\* process_input without input_str.strip()
http_process_input_NoStrip(self, raw) ==
    LET input_str == raw
    IN  IF Len(input_str) # 3 \/ ~IsDigit(input_str)
        THEN [ok |-> FALSE, self |-> self]
        ELSE LET r == HTTPFold(self, input_str)
             IN  IF ~r.ok THEN r
                 ELSE IF r.self.state = "third_digit" /\ Len(r.self.current_code) = 3
                      THEN [ok |-> StrToInt(r.self.current_code) \in VALID_CODES,
                            self |-> r.self]
                      ELSE [ok |-> FALSE, self |-> r.self]

\* HTTPCodeFSM.process_input
http_process_input(self, raw) ==
    LET input_str == Strip(raw)
    IN  IF Len(input_str) # 3 \/ ~IsDigit(input_str)
        THEN [ok |-> FALSE, self |-> self]
        ELSE LET r == HTTPFold(self, input_str)
             IN  IF ~r.ok THEN r
                 ELSE IF r.self.state = "third_digit" /\ Len(r.self.current_code) = 3
                      THEN [ok |-> StrToInt(r.self.current_code) \in VALID_CODES,
                            self |-> r.self]
                      ELSE [ok |-> FALSE, self |-> r.self]

\* HTTPCodeFSM.is_complete
http_is_complete(self) == self.state = "third_digit"

\* get_current_possibilities without the second_digit branch
http_get_current_possibilities_NoThird(self) ==
    IF self.state = "start" THEN get_valid_first_digits
    ELSE IF self.state = "first_digit" THEN get_valid_second_digits(self.current_code)
    ELSE <<>>

\* HTTPCodeFSM.get_current_possibilities
http_get_current_possibilities(self) ==
    IF self.state = "start" THEN get_valid_first_digits
    ELSE IF self.state = "first_digit" THEN get_valid_second_digits(self.current_code)
    ELSE IF self.state = "second_digit" THEN get_valid_third_digits(self.current_code)
    ELSE <<>>

(***************************************************************************)
(* LaTeXMathFSM: alphabet and command tables                               *)
(***************************************************************************)
VALID_COMMANDS == {
    <<"f","r","a","c">>, <<"s","q","r","t">>, <<"s","u","m">>, <<"i","n","t">>, <<"l","i","m">>,
    <<"p","r","o","d">>, <<"a","l","p","h","a">>, <<"b","e","t","a">>, <<"g","a","m","m","a">>,
    <<"d","e","l","t","a">>, <<"e","p","s","i","l","o","n">>, <<"z","e","t","a">>,
    <<"e","t","a">>, <<"t","h","e","t","a">>, <<"i","o","t","a">>, <<"k","a","p","p","a">>,
    <<"l","a","m","b","d","a">>, <<"m","u">>, <<"n","u">>, <<"x","i">>, <<"p","i">>,
    <<"r","h","o">>, <<"s","i","g","m","a">>, <<"t","a","u">>, <<"u","p","s","i","l","o","n">>,
    <<"p","h","i">>, <<"c","h","i">>, <<"p","s","i">>, <<"o","m","e","g","a">>,
    <<"A","l","p","h","a">>, <<"B","e","t","a">>, <<"G","a","m","m","a">>,
    <<"D","e","l","t","a">>, <<"T","h","e","t","a">>, <<"L","a","m","b","d","a">>, <<"X","i">>,
    <<"P","i">>, <<"S","i","g","m","a">>, <<"U","p","s","i","l","o","n">>, <<"P","h","i">>,
    <<"P","s","i">>, <<"O","m","e","g","a">>, <<"c","d","o","t">>, <<"t","i","m","e","s">>,
    <<"d","i","v">>, <<"p","m">>, <<"m","p">>, <<"a","s","t">>, <<"s","t","a","r">>,
    <<"c","i","r","c">>, <<"b","u","l","l","e","t">>, <<"c","a","p">>, <<"c","u","p">>,
    <<"s","q","c","a","p">>, <<"s","q","c","u","p">>, <<"v","e","e">>, <<"w","e","d","g","e">>,
    <<"l","e","q">>, <<"g","e","q">>, <<"n","e","q">>, <<"e","q","u","i","v">>,
    <<"a","p","p","r","o","x">>, <<"s","i","m">>, <<"s","i","m","e","q">>, <<"c","o","n","g">>,
    <<"p","r","o","p","t","o">>, <<"p","a","r","a","l","l","e","l">>, <<"p","e","r","p">>,
    <<"s","u","b","s","e","t">>, <<"s","u","p","s","e","t">>,
    <<"s","u","b","s","e","t","e","q">>, <<"s","u","p","s","e","t","e","q">>, <<"i","n">>,
    <<"n","i">>, <<"n","o","t","i","n">>, <<"r","i","g","h","t","a","r","r","o","w">>,
    <<"l","e","f","t","a","r","r","o","w">>,
    <<"l","e","f","t","r","i","g","h","t","a","r","r","o","w">>,
    <<"R","i","g","h","t","a","r","r","o","w">>, <<"L","e","f","t","a","r","r","o","w">>,
    <<"L","e","f","t","r","i","g","h","t","a","r","r","o","w">>, <<"m","a","p","s","t","o">>,
    <<"l","o","n","g","m","a","p","s","t","o">>, <<"l","e","f","t">>, <<"r","i","g","h","t">>,
    <<"b","i","g">>, <<"B","i","g">>, <<"b","i","g","g">>, <<"B","i","g","g">>, <<"s","i","n">>,
    <<"c","o","s">>, <<"t","a","n">>, <<"s","e","c">>, <<"c","s","c">>, <<"c","o","t">>,
    <<"s","i","n","h">>, <<"c","o","s","h">>, <<"t","a","n","h">>, <<"a","r","c","s","i","n">>,
    <<"a","r","c","c","o","s">>, <<"a","r","c","t","a","n">>, <<"l","n">>, <<"l","o","g">>,
    <<"e","x","p">>, <<"d","e","t">>, <<"d","i","m">>, <<"k","e","r">>, <<"h","o","m">>,
    <<"d","e","g">>, <<"g","c","d">>, <<"b","e","g","i","n">>, <<"e","n","d">>,
    <<"m","a","t","r","i","x">>, <<"p","m","a","t","r","i","x">>,
    <<"b","m","a","t","r","i","x">>, <<"v","m","a","t","r","i","x">>,
    <<"V","m","a","t","r","i","x">>, <<"a","r","r","a","y">>, <<"a","l","i","g","n">>,
    <<"e","q","u","a","t","i","o","n">>, <<"s","p","l","i","t">>, <<"t","e","x","t">>,
    <<"m","a","t","h","b","f">>, <<"m","a","t","h","i","t">>, <<"m","a","t","h","c","a","l">>,
    <<"m","a","t","h","b","b">>, <<"m","a","t","h","f","r","a","k">>,
    <<"m","a","t","h","r","m">>, <<"b","o","l","d","s","y","m","b","o","l">>,
    <<"q","u","a","d">>, <<"q","q","u","a","d">>, <<",">>, <<";">>, <<":">>, <<"!">>,
    <<"e","n","s","p","a","c","e">>, <<"t","h","i","n","s","p","a","c","e">>,
    <<"i","n","f","t","y">>, <<"n","a","b","l","a">>, <<"p","a","r","t","i","a","l">>,
    <<"e","m","p","t","y","s","e","t">>, <<"e","x","i","s","t","s">>,
    <<"f","o","r","a","l","l">>, <<"t","h","e","r","e","f","o","r","e">>,
    <<"b","e","c","a","u","s","e">>, <<"d","o","t","s">>, <<"l","d","o","t","s">>,
    <<"c","d","o","t","s">>, <<"v","d","o","t","s">>, <<"d","d","o","t","s">>
}

Letters == {
    "a","b","c","d","e","f","g","h","i","j","k","l","m",
    "n","o","p","q","r","s","t","u","v","w","x","y","z",
    "A","B","C","D","E","F","G","H","I","J","K","L","M",
    "N","O","P","Q","R","S","T","U","V","W","X","Y","Z"
}

\* characters c with c.isalpha(): the ASCII letters and, of the characters
\* modelled, the accented e
IsAlphaChar(c) == c \in Letters \cup {"é"}

\* set("0123456789"), as one-character strs
VALID_NUMBERS == {<<c>> : c \in AsciiDigits}

\* set("abc...XYZ"), as one-character strs
VALID_VARIABLES == {<<c>> : c \in Letters}

VALID_OPERATORS == {
    <<"+">>, <<"-">>, <<"=">>, <<"<">>, <<">">>, <<"*">>, <<"/">>,
    <<"!">>, <<"?">>, <<".">>, <<",">>, <<";">>, <<":">>, <<"'">>
}

VALID_DELIMITERS == {
    <<"(">>, <<")">>, <<"[">>, <<"]">>, <<"{">>, <<"}">>, <<"|">>,
    <<"\\","|">>, <<"\\","{">>, <<"\\","}">>,
    <<"\\","l","a","n","g","l","e">>, <<"\\","r","a","n","g","l","e">>,
    <<"\\","l","c","e","i","l">>, <<"\\","r","c","e","i","l">>,
    <<"\\","l","f","l","o","o","r">>, <<"\\","r","f","l","o","o","r">>
}

\* the tokens named in the handlers
DOLLAR    == <<"$">>
DDOLLAR   == <<"$", "$">>
LBRACKET  == <<"\\", "[">>
RBRACKET  == <<"\\", "]">>

\* is_valid_command without the table lookup
is_valid_command_Any(command) == TRUE

is_valid_command(command) == command \in VALID_COMMANDS

\* [f"\\{cmd}" for cmd in VALID_COMMANDS], as a set
get_valid_commands == {<<"\\">> \o cmd : cmd \in VALID_COMMANDS}

(***************************************************************************)
(* LaTeXMathFSM.tokenize                                                   *)
(***************************************************************************)
\* the index after the run of letters that starts at j
RECURSIVE SkipAlpha(_, _)
SkipAlpha(s, j) ==
    IF j <= Len(s) /\ IsAlphaChar(s[j]) THEN SkipAlpha(s, j + 1) ELSE j

\* the while loop of tokenize, from index i (1-based) with tokens so far
RECURSIVE TokenizeFrom(_, _, _)
TokenizeFrom(s, i, tokens) ==
    IF i > Len(s) THEN tokens
    ELSE LET char == s[i] IN
        IF IsSpaceChar(char) THEN TokenizeFrom(s, i + 1, tokens)
        ELSE IF char = "\\" THEN
            LET j == i + 1 IN
            IF j <= Len(s) /\ IsAlphaChar(s[j])
            THEN LET k == SkipAlpha(s, j)
                 IN  TokenizeFrom(s, k, Append(tokens, SubSeq(s, i, k - 1)))
            ELSE IF j <= Len(s)
            THEN TokenizeFrom(s, j + 1, Append(tokens, SubSeq(s, i, j)))
            ELSE TokenizeFrom(s, i + 1, Append(tokens, <<char>>))
        ELSE IF char = "$" /\ i + 1 <= Len(s) /\ s[i + 1] = "$"
            THEN TokenizeFrom(s, i + 2, Append(tokens, DDOLLAR))
        ELSE IF char = "\\" /\ i + 1 <= Len(s) /\ s[i + 1] = "["
            THEN TokenizeFrom(s, i + 2, Append(tokens, LBRACKET))
        ELSE IF char = "\\" /\ i + 1 <= Len(s) /\ s[i + 1] = "]"
            THEN TokenizeFrom(s, i + 2, Append(tokens, RBRACKET))
        ELSE TokenizeFrom(s, i + 1, Append(tokens, <<char>>))

\* the loop of tokenize without the branch that skips whitespace
RECURSIVE TokenizeFrom_KeepsWhitespace(_, _, _)
TokenizeFrom_KeepsWhitespace(s, i, tokens) ==
    IF i > Len(s) THEN tokens
    ELSE LET char == s[i] IN
        IF char = "\\" THEN
            LET j == i + 1 IN
            IF j <= Len(s) /\ IsAlphaChar(s[j])
            THEN LET k == SkipAlpha(s, j)
                 IN  TokenizeFrom_KeepsWhitespace(s, k, Append(tokens, SubSeq(s, i, k - 1)))
            ELSE IF j <= Len(s)
            THEN TokenizeFrom_KeepsWhitespace(s, j + 1, Append(tokens, SubSeq(s, i, j)))
            ELSE TokenizeFrom_KeepsWhitespace(s, i + 1, Append(tokens, <<char>>))
        ELSE IF char = "$" /\ i + 1 <= Len(s) /\ s[i + 1] = "$"
            THEN TokenizeFrom_KeepsWhitespace(s, i + 2, Append(tokens, DDOLLAR))
        ELSE IF char = "\\" /\ i + 1 <= Len(s) /\ s[i + 1] = "["
            THEN TokenizeFrom_KeepsWhitespace(s, i + 2, Append(tokens, LBRACKET))
        ELSE IF char = "\\" /\ i + 1 <= Len(s) /\ s[i + 1] = "]"
            THEN TokenizeFrom_KeepsWhitespace(s, i + 2, Append(tokens, RBRACKET))
        ELSE TokenizeFrom_KeepsWhitespace(s, i + 1, Append(tokens, <<char>>))

tokenize_KeepsWhitespace(latex_str) == TokenizeFrom_KeepsWhitespace(latex_str, 1, <<>>)

\* the loop of tokenize reading one letter after the backslash instead of
\* the whole run
RECURSIVE TokenizeFrom_OneLetter(_, _, _)
TokenizeFrom_OneLetter(s, i, tokens) ==
    IF i > Len(s) THEN tokens
    ELSE LET char == s[i] IN
        IF IsSpaceChar(char) THEN TokenizeFrom_OneLetter(s, i + 1, tokens)
        ELSE IF char = "\\" THEN
            LET j == i + 1 IN
            IF j <= Len(s) /\ IsAlphaChar(s[j])
            THEN LET k == j + 1
                 IN  TokenizeFrom_OneLetter(s, k, Append(tokens, SubSeq(s, i, k - 1)))
            ELSE IF j <= Len(s)
            THEN TokenizeFrom_OneLetter(s, j + 1, Append(tokens, SubSeq(s, i, j)))
            ELSE TokenizeFrom_OneLetter(s, i + 1, Append(tokens, <<char>>))
        ELSE IF char = "$" /\ i + 1 <= Len(s) /\ s[i + 1] = "$"
            THEN TokenizeFrom_OneLetter(s, i + 2, Append(tokens, DDOLLAR))
        ELSE IF char = "\\" /\ i + 1 <= Len(s) /\ s[i + 1] = "["
            THEN TokenizeFrom_OneLetter(s, i + 2, Append(tokens, LBRACKET))
        ELSE IF char = "\\" /\ i + 1 <= Len(s) /\ s[i + 1] = "]"
            THEN TokenizeFrom_OneLetter(s, i + 2, Append(tokens, RBRACKET))
        ELSE TokenizeFrom_OneLetter(s, i + 1, Append(tokens, <<char>>))

tokenize_OneLetter(latex_str) == TokenizeFrom_OneLetter(latex_str, 1, <<>>)

\* the loop of tokenize without the branch for two dollar signs
RECURSIVE TokenizeFrom_NoDoubleDollar(_, _, _)
TokenizeFrom_NoDoubleDollar(s, i, tokens) ==
    IF i > Len(s) THEN tokens
    ELSE LET char == s[i] IN
        IF IsSpaceChar(char) THEN TokenizeFrom_NoDoubleDollar(s, i + 1, tokens)
        ELSE IF char = "\\" THEN
            LET j == i + 1 IN
            IF j <= Len(s) /\ IsAlphaChar(s[j])
            THEN LET k == SkipAlpha(s, j)
                 IN  TokenizeFrom_NoDoubleDollar(s, k, Append(tokens, SubSeq(s, i, k - 1)))
            ELSE IF j <= Len(s)
            THEN TokenizeFrom_NoDoubleDollar(s, j + 1, Append(tokens, SubSeq(s, i, j)))
            ELSE TokenizeFrom_NoDoubleDollar(s, i + 1, Append(tokens, <<char>>))
                ELSE IF char = "\\" /\ i + 1 <= Len(s) /\ s[i + 1] = "["
            THEN TokenizeFrom_NoDoubleDollar(s, i + 2, Append(tokens, LBRACKET))
        ELSE IF char = "\\" /\ i + 1 <= Len(s) /\ s[i + 1] = "]"
            THEN TokenizeFrom_NoDoubleDollar(s, i + 2, Append(tokens, RBRACKET))
        ELSE TokenizeFrom_NoDoubleDollar(s, i + 1, Append(tokens, <<char>>))

tokenize_NoDoubleDollar(latex_str) == TokenizeFrom_NoDoubleDollar(latex_str, 1, <<>>)

tokenize(latex_str) == TokenizeFrom(latex_str, 1, <<>>)

(***************************************************************************)
(* LaTeXMathFSM: the engine                                                *)
(***************************************************************************)
\* reset leaving the path empty instead of [start]
LatexReset_EmptyPath ==
    [state |-> "start", current_expression |-> <<>>, path |-> <<>>,
     brace_depth |-> 0, bracket_depth |-> 0, paren_depth |-> 0,
     math_mode_type |-> "None", command_buffer |-> <<>>,
     environment_stack |-> <<>>]

\* LaTeXMathFSM.reset: the instance after __init__ or reset()
LatexReset ==
    [state |-> "start", current_expression |-> <<>>, path |-> <<"start">>,
     brace_depth |-> 0, bracket_depth |-> 0, paren_depth |-> 0,
     math_mode_type |-> "None", command_buffer |-> <<>>,
     environment_stack |-> <<>>]

\* the new state written over the last element of the path
GoTo_OverwritesLast(self, state) ==
    [self EXCEPT !.state = state,
                 !.path = [self.path EXCEPT ![Len(self.path)] = state]]

\* self.state = state; self._add_to_path(state)
GoTo(self, state) ==
    [self EXCEPT !.state = state, !.path = Append(self.path, state)]

\* _is_math_mode_end accepting any closer, whatever the flavor
_is_math_mode_end_AnyCloser(self, token) ==
    self.math_mode_type \in {"inline", "display"} /\ token \in {DOLLAR, DDOLLAR, RBRACKET}

_is_math_mode_end(self, token) ==
    IF self.math_mode_type = "inline" /\ token = DOLLAR THEN TRUE
    ELSE IF self.math_mode_type = "display" /\ token \in {DDOLLAR, RBRACKET} THEN TRUE
    ELSE FALSE

\* _process_start_state giving $$ the inline flavor
_process_start_state_DoubleDollarInline(self, token) ==
    IF token \in {DOLLAR, DDOLLAR}
    THEN [ok |-> TRUE, self |-> [GoTo(self, "math_mode") EXCEPT !.math_mode_type = "inline"]]
    ELSE IF token = LBRACKET
    THEN [ok |-> TRUE, self |-> [GoTo(self, "math_mode") EXCEPT !.math_mode_type = "display"]]
    ELSE [ok |-> FALSE, self |-> self]

_process_start_state(self, token) ==
    IF token = DOLLAR
    THEN [ok |-> TRUE, self |-> [GoTo(self, "math_mode") EXCEPT !.math_mode_type = "inline"]]
    ELSE IF token = DDOLLAR
    THEN [ok |-> TRUE, self |-> [GoTo(self, "math_mode") EXCEPT !.math_mode_type = "display"]]
    ELSE IF token = LBRACKET
    THEN [ok |-> TRUE, self |-> [GoTo(self, "math_mode") EXCEPT !.math_mode_type = "display"]]
    ELSE [ok |-> FALSE, self |-> self]

\* _process_math_mode closing a parenthesis or bracket without testing the
\* counter
_process_math_mode_UnguardedClose(self, token) ==
    IF _is_math_mode_end(self, token)
    THEN [ok |-> TRUE, self |-> GoTo(self, "end_state")]
    ELSE IF StartsWith(token, <<"\\">>) /\ Len(token) > 1 /\ is_valid_command(Tail(token))
    THEN LET command_name == Tail(token) IN
         IF command_name = <<"f","r","a","c">>
         THEN [ok |-> TRUE, self |-> GoTo(self, "fraction_num")]
         ELSE IF command_name = <<"b","e","g","i","n">>
         THEN [ok |-> TRUE,
               self |-> [GoTo(self, "command") EXCEPT !.command_buffer = command_name]]
         ELSE [ok |-> TRUE, self |-> self]
    ELSE IF token \in VALID_VARIABLES \/ token \in VALID_NUMBERS \/ token \in VALID_OPERATORS
    THEN [ok |-> TRUE, self |-> self]
    ELSE IF token = <<"^">>
    THEN [ok |-> TRUE, self |-> GoTo(self, "superscript")]
    ELSE IF token = <<"_">>
    THEN [ok |-> TRUE, self |-> GoTo(self, "subscript")]
    ELSE IF token = <<"{">>
    THEN [ok |-> TRUE,
          self |-> GoTo([self EXCEPT !.brace_depth = self.brace_depth + 1], "content")]
    ELSE IF token = <<"}">> /\ self.brace_depth > 0
    THEN [ok |-> TRUE, self |-> [self EXCEPT !.brace_depth = self.brace_depth - 1]]
    ELSE IF token \in {<<"(">>, <<"[">>, <<"|">>}
    THEN IF token = <<"(">>
         THEN [ok |-> TRUE, self |-> [self EXCEPT !.paren_depth = self.paren_depth + 1]]
         ELSE IF token = <<"[">>
         THEN [ok |-> TRUE, self |-> [self EXCEPT !.bracket_depth = self.bracket_depth + 1]]
         ELSE [ok |-> TRUE, self |-> self]
    ELSE IF token = <<")">>
    THEN [ok |-> TRUE, self |-> [self EXCEPT !.paren_depth = self.paren_depth - 1]]
    ELSE IF token = <<"]">>
    THEN [ok |-> TRUE, self |-> [self EXCEPT !.bracket_depth = self.bracket_depth - 1]]
    ELSE [ok |-> FALSE, self |-> self]

\* _process_math_mode counting | as an opening parenthesis
_process_math_mode_BarCounts(self, token) ==
    IF _is_math_mode_end(self, token)
    THEN [ok |-> TRUE, self |-> GoTo(self, "end_state")]
    ELSE IF StartsWith(token, <<"\\">>) /\ Len(token) > 1 /\ is_valid_command(Tail(token))
    THEN LET command_name == Tail(token) IN
         IF command_name = <<"f","r","a","c">>
         THEN [ok |-> TRUE, self |-> GoTo(self, "fraction_num")]
         ELSE IF command_name = <<"b","e","g","i","n">>
         THEN [ok |-> TRUE,
               self |-> [GoTo(self, "command") EXCEPT !.command_buffer = command_name]]
         ELSE [ok |-> TRUE, self |-> self]
    ELSE IF token \in VALID_VARIABLES \/ token \in VALID_NUMBERS \/ token \in VALID_OPERATORS
    THEN [ok |-> TRUE, self |-> self]
    ELSE IF token = <<"^">>
    THEN [ok |-> TRUE, self |-> GoTo(self, "superscript")]
    ELSE IF token = <<"_">>
    THEN [ok |-> TRUE, self |-> GoTo(self, "subscript")]
    ELSE IF token = <<"{">>
    THEN [ok |-> TRUE,
          self |-> GoTo([self EXCEPT !.brace_depth = self.brace_depth + 1], "content")]
    ELSE IF token = <<"}">> /\ self.brace_depth > 0
    THEN [ok |-> TRUE, self |-> [self EXCEPT !.brace_depth = self.brace_depth - 1]]
    ELSE IF token \in {<<"(">>, <<"[">>, <<"|">>}
    THEN IF token = <<"(">>
         THEN [ok |-> TRUE, self |-> [self EXCEPT !.paren_depth = self.paren_depth + 1]]
         ELSE IF token = <<"[">>
         THEN [ok |-> TRUE, self |-> [self EXCEPT !.bracket_depth = self.bracket_depth + 1]]
         ELSE [ok |-> TRUE, self |-> [self EXCEPT !.paren_depth = self.paren_depth + 1]]
    ELSE IF token = <<")">> /\ self.paren_depth > 0
    THEN [ok |-> TRUE, self |-> [self EXCEPT !.paren_depth = self.paren_depth - 1]]
    ELSE IF token = <<"]">> /\ self.bracket_depth > 0
    THEN [ok |-> TRUE, self |-> [self EXCEPT !.bracket_depth = self.bracket_depth - 1]]
    ELSE [ok |-> FALSE, self |-> self]

_process_math_mode(self, token) ==
    IF _is_math_mode_end(self, token)
    THEN [ok |-> TRUE, self |-> GoTo(self, "end_state")]
    ELSE IF StartsWith(token, <<"\\">>) /\ Len(token) > 1 /\ is_valid_command(Tail(token))
    THEN LET command_name == Tail(token) IN
         IF command_name = <<"f","r","a","c">>
         THEN [ok |-> TRUE, self |-> GoTo(self, "fraction_num")]
         ELSE IF command_name = <<"b","e","g","i","n">>
         THEN [ok |-> TRUE,
               self |-> [GoTo(self, "command") EXCEPT !.command_buffer = command_name]]
         ELSE [ok |-> TRUE, self |-> self]
    ELSE IF token \in VALID_VARIABLES \/ token \in VALID_NUMBERS \/ token \in VALID_OPERATORS
    THEN [ok |-> TRUE, self |-> self]
    ELSE IF token = <<"^">>
    THEN [ok |-> TRUE, self |-> GoTo(self, "superscript")]
    ELSE IF token = <<"_">>
    THEN [ok |-> TRUE, self |-> GoTo(self, "subscript")]
    ELSE IF token = <<"{">>
    THEN [ok |-> TRUE,
          self |-> GoTo([self EXCEPT !.brace_depth = self.brace_depth + 1], "content")]
    ELSE IF token = <<"}">> /\ self.brace_depth > 0
    THEN [ok |-> TRUE, self |-> [self EXCEPT !.brace_depth = self.brace_depth - 1]]
    ELSE IF token \in {<<"(">>, <<"[">>, <<"|">>}
    THEN IF token = <<"(">>
         THEN [ok |-> TRUE, self |-> [self EXCEPT !.paren_depth = self.paren_depth + 1]]
         ELSE IF token = <<"[">>
         THEN [ok |-> TRUE, self |-> [self EXCEPT !.bracket_depth = self.bracket_depth + 1]]
         ELSE [ok |-> TRUE, self |-> self]
    ELSE IF token = <<")">> /\ self.paren_depth > 0
    THEN [ok |-> TRUE, self |-> [self EXCEPT !.paren_depth = self.paren_depth - 1]]
    ELSE IF token = <<"]">> /\ self.bracket_depth > 0
    THEN [ok |-> TRUE, self |-> [self EXCEPT !.bracket_depth = self.bracket_depth - 1]]
    ELSE [ok |-> FALSE, self |-> self]

\* _process_command_state entering brace_open without counting the brace
_process_command_state_NoCount(self, token) ==
    IF token = <<"{">>
    THEN [ok |-> TRUE, self |-> GoTo(self, "brace_open")]
    ELSE [ok |-> FALSE, self |-> self]

_process_command_state(self, token) ==
    IF token = <<"{">>
    THEN [ok |-> TRUE,
          self |-> GoTo([self EXCEPT !.brace_depth = self.brace_depth + 1], "brace_open")]
    ELSE [ok |-> FALSE, self |-> self]

\* _process_content_state leaving for math_mode at every closing brace
_process_content_state_AlwaysLeaves(self, token) ==
    IF token = <<"}">>
    THEN [ok |-> TRUE,
          self |-> GoTo([self EXCEPT !.brace_depth = self.brace_depth - 1], "math_mode")]
    ELSE IF token = <<"{">>
    THEN [ok |-> TRUE, self |-> [self EXCEPT !.brace_depth = self.brace_depth + 1]]
    ELSE [ok |-> (token \in VALID_VARIABLES \/ token \in VALID_NUMBERS \/
                  token \in VALID_OPERATORS \/ StartsWith(token, <<"\\">>)),
          self |-> self]

\* _process_content_state moving on to the denominator when the brace group
\* that closes is the numerator of a fraction
_process_content_state_ToDenominator(self, token) ==
    IF token = <<"}">>
    THEN LET s1 == [self EXCEPT !.brace_depth = self.brace_depth - 1] IN
         IF s1.brace_depth = 0
         THEN IF Len(self.path) >= 2 /\ self.path[Len(self.path) - 1] = "fraction_num"
              THEN [ok |-> TRUE, self |-> GoTo(s1, "fraction_den")]
              ELSE [ok |-> TRUE, self |-> GoTo(s1, "math_mode")]
         ELSE [ok |-> TRUE, self |-> s1]
    ELSE IF token = <<"{">>
    THEN [ok |-> TRUE, self |-> [self EXCEPT !.brace_depth = self.brace_depth + 1]]
    ELSE [ok |-> (token \in VALID_VARIABLES \/ token \in VALID_NUMBERS \/
                  token \in VALID_OPERATORS \/ StartsWith(token, <<"\\">>)),
          self |-> self]

_process_content_state(self, token) ==
    IF token = <<"}">>
    THEN LET s1 == [self EXCEPT !.brace_depth = self.brace_depth - 1] IN
         IF s1.brace_depth = 0
         THEN [ok |-> TRUE, self |-> GoTo(s1, "math_mode")]
         ELSE [ok |-> TRUE, self |-> s1]
    ELSE IF token = <<"{">>
    THEN [ok |-> TRUE, self |-> [self EXCEPT !.brace_depth = self.brace_depth + 1]]
    ELSE [ok |-> (token \in VALID_VARIABLES \/ token \in VALID_NUMBERS \/
                  token \in VALID_OPERATORS \/ StartsWith(token, <<"\\">>)),
          self |-> self]

_process_brace_open_state(self, token) ==
    IF token = <<"}">>
    THEN [ok |-> TRUE,
          self |-> GoTo([self EXCEPT !.brace_depth = self.brace_depth - 1], "math_mode")]
    ELSE _process_content_state(GoTo(self, "content"), token)

\* _process_superscript_state letting the math-mode closer end the
\* expression
_process_superscript_state_ClosesMath(self, token) ==
    IF token = <<"{">>
    THEN [ok |-> TRUE,
          self |-> GoTo([self EXCEPT !.brace_depth = self.brace_depth + 1], "content")]
    ELSE IF token \in VALID_VARIABLES \/ token \in VALID_NUMBERS
    THEN [ok |-> TRUE, self |-> GoTo(self, "math_mode")]
    ELSE IF _is_math_mode_end(self, token)
    THEN [ok |-> TRUE, self |-> GoTo(self, "end_state")]
    ELSE [ok |-> FALSE, self |-> self]

_process_superscript_state(self, token) ==
    IF token = <<"{">>
    THEN [ok |-> TRUE,
          self |-> GoTo([self EXCEPT !.brace_depth = self.brace_depth + 1], "content")]
    ELSE IF token \in VALID_VARIABLES \/ token \in VALID_NUMBERS
    THEN [ok |-> TRUE, self |-> GoTo(self, "math_mode")]
    ELSE [ok |-> FALSE, self |-> self]

_process_subscript_state(self, token) ==
    IF token = <<"{">>
    THEN [ok |-> TRUE,
          self |-> GoTo([self EXCEPT !.brace_depth = self.brace_depth + 1], "content")]
    ELSE IF token \in VALID_VARIABLES \/ token \in VALID_NUMBERS
    THEN [ok |-> TRUE, self |-> GoTo(self, "math_mode")]
    ELSE [ok |-> FALSE, self |-> self]

\* _process_fraction_num_state taking a bare character as the numerator
_process_fraction_num_state_BareNumerator(self, token) ==
    IF token = <<"{">>
    THEN [ok |-> TRUE,
          self |-> GoTo([self EXCEPT !.brace_depth = self.brace_depth + 1], "content")]
    ELSE IF token \in VALID_VARIABLES \/ token \in VALID_NUMBERS
    THEN [ok |-> TRUE, self |-> GoTo(self, "math_mode")]
    ELSE [ok |-> FALSE, self |-> self]

_process_fraction_num_state(self, token) ==
    IF token = <<"{">>
    THEN [ok |-> TRUE,
          self |-> GoTo([self EXCEPT !.brace_depth = self.brace_depth + 1], "content")]
    ELSE [ok |-> FALSE, self |-> self]

_process_fraction_den_state(self, token) ==
    IF token = <<"{">>
    THEN [ok |-> TRUE,
          self |-> GoTo([self EXCEPT !.brace_depth = self.brace_depth + 1], "content")]
    ELSE [ok |-> FALSE, self |-> self]

\* LaTeXMathFSM.process_token: [ok |-> returned value, self |-> instance after]
process_token(self, token) ==
    IF self.state = "start" THEN _process_start_state(self, token)
    ELSE IF self.state = "math_mode" THEN _process_math_mode(self, token)
    ELSE IF self.state = "command" THEN _process_command_state(self, token)
    ELSE IF self.state = "brace_open" THEN _process_brace_open_state(self, token)
    ELSE IF self.state = "content" THEN _process_content_state(self, token)
    ELSE IF self.state = "superscript" THEN _process_superscript_state(self, token)
    ELSE IF self.state = "subscript" THEN _process_subscript_state(self, token)
    ELSE IF self.state = "fraction_num" THEN _process_fraction_num_state(self, token)
    ELSE IF self.state = "fraction_den" THEN _process_fraction_den_state(self, token)
    ELSE [ok |-> FALSE, self |-> self]

\* is_complete without the parenthesis counter
is_complete_IgnoresParens(self) ==
    /\ self.state = "end_state"
    /\ self.brace_depth = 0
    /\ self.bracket_depth = 0

\* LaTeXMathFSM.is_complete
is_complete(self) ==
    /\ self.state = "end_state"
    /\ self.brace_depth = 0
    /\ self.bracket_depth = 0
    /\ self.paren_depth = 0

\* the loop of process_input over the tokens: stops at the first rejected
\* token; n counts the tokens on which process_token was called
RECURSIVE LatexFold(_, _, _)
LatexFold(self, tokens, n) ==
    IF Len(tokens) = 0 THEN [ok |-> TRUE, self |-> self, n |-> n]
    ELSE LET r == process_token(self, Head(tokens))
         IN  IF r.ok THEN LatexFold(r.self, Tail(tokens), n + 1)
             ELSE [ok |-> FALSE, self |-> r.self, n |-> n + 1]

\* process_input returning true once every token is accepted, without
\* is_complete()
process_input_SkipsCompleteness(self, latex_str) ==
    LET r == LatexFold(self, tokenize(latex_str), 0)
    IN  [ok |-> r.ok, self |-> r.self]

\* LaTeXMathFSM.process_input
process_input(self, latex_str) ==
    LET r == LatexFold(self, tokenize(latex_str), 0)
    IN  IF ~r.ok THEN [ok |-> FALSE, self |-> r.self]
        ELSE [ok |-> is_complete(r.self), self |-> r.self]

\* LaTeXMathFSM.get_current_possibilities, as the set of the list's elements
get_current_possibilities(self) ==
    IF self.state = "start" THEN {DOLLAR, DDOLLAR, LBRACKET}
    ELSE IF self.state = "math_mode" THEN
        VALID_VARIABLES \cup VALID_NUMBERS \cup VALID_OPERATORS \cup get_valid_commands
        \cup {<<"^">>, <<"_">>, <<"{">>, <<"}">>, <<"(">>, <<")">>, <<"[">>, <<"]">>}
        \cup (IF self.math_mode_type = "inline" THEN {DOLLAR}
              ELSE IF self.math_mode_type = "display" THEN {DDOLLAR, RBRACKET}
              ELSE {})
    ELSE IF self.state \in {"superscript", "subscript"} THEN
        VALID_VARIABLES \cup VALID_NUMBERS \cup {<<"{">>}
    ELSE IF self.state = "command" THEN {<<"{">>}
    ELSE IF self.state \in {"brace_open", "content"} THEN
        VALID_VARIABLES \cup VALID_NUMBERS \cup VALID_OPERATORS \cup get_valid_commands
        \cup {<<"{">>, <<"}">>, <<"^">>, <<"_">>}
    ELSE IF self.state = "fraction_num" THEN {<<"{">>}
    ELSE IF self.state = "fraction_den" THEN {<<"{">>}
    ELSE {}

(***************************************************************************)
(* FiniteStateMachine (src/src/fsm/state_machine.py): states, labelled     *)
(* transitions and the history of the states visited.  A transition's      *)
(* condition is a Python lambda; here it is the name of the lambda, and    *)
(* can_transition computes what the lambda computes.                       *)
(***************************************************************************)
\* sub in x, for a non-empty str sub
Contains(x, sub) ==
    \E i \in 1..(Len(x) - Len(sub) + 1) : SubSeq(x, i, i + Len(sub) - 1) = sub

\* s.endswith(suffix)
EndsWith(s, suffix) ==
    Len(suffix) <= Len(s) /\ SubSeq(s, Len(s) - Len(suffix) + 1, Len(s)) = suffix

UpperSeq ==
    <<"A","B","C","D","E","F","G","H","I","J","K","L","M",
      "N","O","P","Q","R","S","T","U","V","W","X","Y","Z">>

LowerSeq ==
    <<"a","b","c","d","e","f","g","h","i","j","k","l","m",
      "n","o","p","q","r","s","t","u","v","w","x","y","z">>

\* x.lower()
Lower(x) ==
    [i \in 1..Len(x) |->
        IF \E k \in 1..26 : UpperSeq[k] = x[i]
        THEN LowerSeq[CHOOSE k \in 1..26 : UpperSeq[k] = x[i]]
        ELSE x[i]]

\* the character classes of the email patterns: [a-zA-Z0-9._-] and
\* [a-zA-Z0-9.-]
UsernameChars == Letters \cup AsciiDigits \cup {".", "_", "-"}

DomainChars == Letters \cup AsciiDigits \cup {".", "-"}

\* x.split("@")[-1]: what follows the last @, or all of x without one
AfterLastAt(x) ==
    LET ats == {i \in 1..Len(x) : x[i] = "@"} IN
    IF ats = {} THEN x
    ELSE LET last == CHOOSE i \in ats : \A j \in ats : j <= i
         IN  SubSeq(x, last + 1, Len(x))

\* re.search(r'\.([a-zA-Z]{2,})$', x): a dot followed by two or more ASCII
\* letters that run to the end of x, or to a final newline
EndsWithTld(x) ==
    LET end == IF Len(x) > 0 /\ x[Len(x)] = "\n" THEN Len(x) - 1 ELSE Len(x) IN
    \E i \in 1..end :
        /\ x[i] = "."
        /\ end - i >= 2
        /\ \A j \in (i + 1)..end : x[j] \in Letters

\* State(name, state_type): every State of the machines below is built
\* with the default, empty validator list
State(name, state_type) == [name |-> name, state_type |-> state_type]

\* State.validate: all() over the empty validator list
validate(state, input_text) == TRUE

\* Transition(from_state, to_state, condition)
Transition(from_state, to_state, condition) ==
    [from_state |-> from_state, to_state |-> to_state, condition |-> condition]

\* the lambda named condition raises IndexError on input_text:
\* x.strip()[-1] of a str that is blank once the quick test has failed
ConditionRaises(condition, x) ==
    /\ condition = "json_value"
    /\ ~\E c \in {"\"", "{", "[", "t", "f", "n"} : Contains(x, <<c>>)
    /\ Strip(x) = <<>>

\* Transition.can_transition: the truth value of the lambda on input_text
can_transition(t, x) ==
    CASE t.condition = "has_1" -> Contains(x, <<"1">>)
      [] t.condition = "has_2" -> Contains(x, <<"2">>)
      [] t.condition = "has_go" -> Contains(Lower(x), <<"g", "o">>)
      [] t.condition = "has_finish" ->
            Contains(Lower(x), <<"f", "i", "n", "i", "s", "h">>)
      [] t.condition = "json_open" -> StartsWith(Strip(x), <<"{">>)
      [] t.condition = "json_key" ->
            Contains(x, <<"\"">>) /\ ~EndsWith(Strip(x), <<"}">>)
      [] t.condition = "json_colon" -> Contains(x, <<":">>)
      [] t.condition = "json_value" ->
            \/ \E c \in {"\"", "{", "[", "t", "f", "n"} : Contains(x, <<c>>)
            \/ (Strip(x) # <<>> /\ IsDigitChar(Strip(x)[Len(Strip(x))]))
      [] t.condition = "json_comma" -> Contains(x, <<",">>)
      [] t.condition = "json_next_key" -> Contains(x, <<"\"">>)
      [] t.condition = "json_close" -> EndsWith(Strip(x), <<"}">>)
      [] t.condition = "email_username" ->
            Strip(x) # <<>> /\ Strip(x)[1] \in UsernameChars
      [] t.condition = "email_at" -> Contains(x, <<"@">>)
      [] t.condition = "email_domain" ->
            \E i \in 1..(Len(x) - 1) : x[i] = "@" /\ x[i + 1] \in DomainChars
      [] t.condition = "email_dot" -> Contains(AfterLastAt(x), <<".">>)
      [] t.condition = "email_tld" -> EndsWithTld(x)
      [] OTHER -> FALSE

\* FiniteStateMachine(initial_state) followed by the add_state and
\* add_transition calls of a builder: states is the dict of the states by
\* name, transitions the list in the order added
FiniteStateMachine(initial_state, states, transitions) ==
    [states |-> states, transitions |-> transitions,
     current_state |-> initial_state, initial_state |-> initial_state,
     history |-> <<initial_state>>]

\* the dict built by add_state from a list of states
StatesByName(states) ==
    [name \in {states[i].name : i \in 1..Len(states)} |->
        LET i == CHOOSE k \in 1..Len(states) :
                    /\ states[k].name = name
                    /\ \A j \in 1..Len(states) : states[j].name = name => j <= k
        IN  states[i]]

\* FiniteStateMachine.get_valid_transitions
get_valid_transitions(self, input_text) ==
    SelectSeq(self.transitions,
              LAMBDA t : t.from_state = self.current_state
                         /\ can_transition(t, input_text))

\* a condition evaluated by get_valid_transitions raises
TransitionRaises(self, input_text) ==
    \E i \in 1..Len(self.transitions) :
        /\ self.transitions[i].from_state = self.current_state
        /\ ConditionRaises(self.transitions[i].condition, input_text)

\* transition recording nothing in the history
transition_ForgetsHistory(self, input_text) ==
    IF TransitionRaises(self, input_text)
    THEN [ret |-> "IndexError", self |-> self]
    ELSE LET valid_transitions == get_valid_transitions(self, input_text) IN
         IF valid_transitions = <<>> THEN [ret |-> "False", self |-> self]
         ELSE LET t == valid_transitions[1] IN
              IF t.to_state \in DOMAIN self.states
                 /\ validate(self.states[t.to_state], input_text)
              THEN [ret |-> "True",
                    self |-> [self EXCEPT !.current_state = t.to_state]]
              ELSE [ret |-> "False", self |-> self]

\* FiniteStateMachine.transition: ret is "True" or "False" for the value
\* returned and "IndexError" when a condition raised
transition(self, input_text) ==
    IF TransitionRaises(self, input_text)
    THEN [ret |-> "IndexError", self |-> self]
    ELSE LET valid_transitions == get_valid_transitions(self, input_text) IN
         IF valid_transitions = <<>> THEN [ret |-> "False", self |-> self]
         ELSE LET t == valid_transitions[1] IN
              IF t.to_state \in DOMAIN self.states
                 /\ validate(self.states[t.to_state], input_text)
              THEN [ret |-> "True",
                    self |-> [self EXCEPT !.current_state = t.to_state,
                                          !.history = Append(@, t.to_state)]]
              ELSE [ret |-> "False", self |-> self]

\* FiniteStateMachine.is_final_state, as a truth value
is_final_state(self) ==
    /\ self.current_state \in DOMAIN self.states
    /\ self.states[self.current_state].state_type = "final"

\* FiniteStateMachine.is_error_state, as a truth value
is_error_state(self) ==
    /\ self.current_state \in DOMAIN self.states
    /\ self.states[self.current_state].state_type = "error"

\* FiniteStateMachine.reset
fsm_reset(self) ==
    [self EXCEPT !.current_state = self.initial_state,
                 !.history = <<self.initial_state>>]

\* FSMBuilder.create_json_fsm
create_json_fsm ==
    FiniteStateMachine("start",
        StatesByName(<<State("start", "initial"),
                       State("object_start", "intermediate"),
                       State("key", "intermediate"),
                       State("colon", "intermediate"),
                       State("value", "intermediate"),
                       State("comma", "intermediate"),
                       State("object_end", "final"),
                       State("error", "error")>>),
        <<Transition("start", "object_start", "json_open"),
          Transition("object_start", "key", "json_key"),
          Transition("key", "colon", "json_colon"),
          Transition("colon", "value", "json_value"),
          Transition("value", "comma", "json_comma"),
          Transition("comma", "key", "json_next_key"),
          Transition("value", "object_end", "json_close"),
          Transition("object_start", "object_end", "json_close")>>)

\* FSMBuilder.create_email_fsm
create_email_fsm ==
    FiniteStateMachine("start",
        StatesByName(<<State("start", "initial"),
                       State("username", "intermediate"),
                       State("at_symbol", "intermediate"),
                       State("domain", "intermediate"),
                       State("dot", "intermediate"),
                       State("tld", "final"),
                       State("error", "error")>>),
        <<Transition("start", "username", "email_username"),
          Transition("username", "at_symbol", "email_at"),
          Transition("at_symbol", "domain", "email_domain"),
          Transition("domain", "dot", "email_dot"),
          Transition("dot", "tld", "email_tld")>>)

\* the machine built by test_basic_fsm
basic_fsm ==
    FiniteStateMachine("start",
        StatesByName(<<State("start", "initial"),
                       State("middle", "intermediate"),
                       State("end", "final")>>),
        <<Transition("start", "middle", "has_go"),
          Transition("middle", "end", "has_finish")>>)

\* the machine built by test_state_history
history_fsm ==
    FiniteStateMachine("a",
        StatesByName(<<State("a", "initial"),
                       State("b", "intermediate"),
                       State("c", "final")>>),
        <<Transition("a", "b", "has_1"),
          Transition("b", "c", "has_2")>>)

\* ConstrainedLLM._validate_response_with_fsm (src/src/llm/groq_client.py)
_validate_response_with_fsm(text, self) ==
    LET r == transition(fsm_reset(self), text) IN
    IF r.ret = "IndexError" THEN r
    ELSE [ret |-> IF r.ret = "True"
                     /\ (is_final_state(r.self) \/ ~is_error_state(r.self))
                  THEN "True" ELSE "False",
          self |-> r.self]

\* test_fsm = type(fsm)(fsm.initial_state) with test_fsm.states and
\* test_fsm.transitions set to copies of the caller's: obj is the new
\* instance, shared says whether it is the caller's own object
NewTestFsm_SameObject(self) == [obj |-> self, shared |-> TRUE]

NewTestFsm(self) ==
    [obj |-> FiniteStateMachine(self.initial_state, self.states, self.transitions),
     shared |-> FALSE]

\* ConstrainedLLM._can_fsm_accept_text: ret is the value returned by
\* test_fsm.transition after test_fsm.reset(); self is the caller's
\* instance after the call
_can_fsm_accept_text(text, self) ==
    LET test_fsm == NewTestFsm(self)
        r == transition(fsm_reset(test_fsm.obj), text)
    IN  [ret |-> r.ret, self |-> IF test_fsm.shared THEN r.self ELSE self]

\* ConstrainedLLM._validate_partial_response_with_fsm: no reset; the test
\* instance starts where its constructor puts it
_validate_partial_response_with_fsm(text, self) ==
    LET test_fsm == NewTestFsm(self)
        r == transition(test_fsm.obj, text)
    IN  [ret |-> IF r.ret = "IndexError" THEN "IndexError"
                 ELSE IF r.ret = "True" \/ r.self.current_state # "error"
                 THEN "True" ELSE "False",
         self |-> IF test_fsm.shared THEN r.self ELSE self]

\* the update that drives the instance on from where it is (no reset)
_update_fsm_with_text_NoReset(text, self) ==
    LET r == transition(self, text)
    IN  [raises |-> r.ret = "IndexError", self |-> r.self]

\* ConstrainedLLM._update_fsm_with_text: fsm.reset(); fsm.transition(text);
\* raises says whether a condition raised
_update_fsm_with_text(text, self) ==
    LET r == transition(fsm_reset(self), text)
    IN  [raises |-> r.ret = "IndexError", self |-> r.self]

\* the transitions leaving the current state
OutgoingTransitions(self) ==
    SelectSeq(self.transitions, LAMBDA t : t.from_state = self.current_state)

\* ConstrainedLLM._generate_minimal_valid_continuation; of the state names
\* of the machines below only "error" contains "error" and none contains
\* "success"
_generate_minimal_valid_continuation(self) ==
    IF OutgoingTransitions(self) # <<>>
    THEN IF self.current_state = "error" THEN <<"4", "0", "4">>
         ELSE <<"2", "0", "0">>
    ELSE <<>>

\* ConstrainedLLM._force_completion_to_final_state
_force_completion_to_final_state(current_text, self) ==
    LET text == Strip(current_text) IN
    IF text = <<>> THEN <<"2", "0", "0">>
    ELSE IF IsDigitChar(text[Len(text)]) THEN <<>>
    ELSE <<" ", "2", "0", "0">>

\* len(x.split()): the number of maximal runs of non-whitespace characters
SplitCount(x) ==
    Cardinality({i \in 1..Len(x) :
        ~IsSpaceChar(x[i]) /\ (i = 1 \/ IsSpaceChar(x[i - 1]))})

\* a machine with its initial state added and no transition yet
bare_fsm ==
    FiniteStateMachine("start", StatesByName(<<State("start", "initial")>>), <<>>)

\* a machine whose initial state has a transition to a final state
direct_fsm ==
    FiniteStateMachine("start",
        StatesByName(<<State("start", "initial"), State("end", "final")>>),
        <<Transition("start", "end", "has_go")>>)

\* no function with a modelled loop is running
NoFrame == [fn |-> "none"]

\* no validation attempt is under way
NoAttempts == [kind |-> "none", inst |-> <<>>, script |-> <<>>, results |-> <<>>]

(***************************************************************************)
(* Arguments offered to the methods.                                       *)
(***************************************************************************)
\* arguments of process_digit: every digit, the empty str, a letter, a
\* two-digit str, a blank and a non-ASCII digit
DigitInputs ==
    {<<DigitSeq[i]>> : i \in 1..10}
    \cup {<<>>, <<"a">>, <<"1", "2">>, <<" ">>, <<"²">>}

\* digits of the three-character arguments of HTTPCodeFSM.process_input
CodeDigits == {"0", "1", "4", "9"}

\* arguments of HTTPCodeFSM.process_input: every three-digit str over
\* CodeDigits, and strs that are too short, too long, padded or not digits
HTTPInputs ==
    {<<a, b, c>> : a \in CodeDigits, b \in CodeDigits, c \in CodeDigits}
    \cup {<<>>, <<"4">>, <<"1", "2">>, <<"4", "0", "4", "0">>,
          <<"a", "b", "c">>, <<"4", "a", "4">>, <<"4", " ", "4">>,
          <<" ", "4", "0", "4">>, <<"4", "0", "4", "\n">>,
          <<" ", "4", "0", "4", " ">>, <<" ", "4", "9", "9">>,
          <<"4", "0", " ">>, <<" ", " ", " ">>, <<"4", "0", "²">>,
          <<"²", "0", "0">>, <<"2", "0", "0">>, <<"5", "1", "1">>}

\* tokens offered to LaTeXMathFSM.process_token
TokenInputs == {
    DOLLAR, DDOLLAR, LBRACKET, RBRACKET,
    <<"x">>, <<"2">>, <<"+">>, <<"^">>, <<"_">>,
    <<"{">>, <<"}">>, <<"(">>, <<")">>, <<"[">>, <<"]">>, <<"|">>,
    <<"\\","f","r","a","c">>, <<"\\","b","e","g","i","n">>,
    <<"\\","a","l","p","h","a">>, <<"\\",",">>,
    <<"\\","f","o","o">>, <<"\\","{">>, <<"\\">>,
    <<"#">>, <<"x","y">>, <<>>
}

\* strs offered to LaTeXMathFSM.process_input
LatexInputs == {
    <<>>,
    <<"$">>,
    <<"x">>,
    <<"$","x","$">>,
    <<"$","x"," ","+"," ","y","$","$">>,
    <<"$","$","x","$","$">>,
    <<"\\","[","x","\\","]">>,
    <<"$","$","x","\\","]">>,
    <<"\\","[","x","$">>,
    <<"$","x","^","2","$">>,
    <<"$","x","^","$">>,
    <<"$","(","$">>,
    <<"$","(",")","$">>,
    <<"$","\\","f","r","a","c","{","a","$">>,
    <<"$","\\","f","r","a","c","{","a">>,
    <<"$","\\","f","r","a","c","{","a","}","$">>,
    <<"$","\\","b","e","g","i","n","{","(">>,
    <<"$","\\","b","e","g","i","n","{","}","$">>,
    <<"x","$">>,
    <<"}">>,
    <<"$","x","^","{","2","^","3","}","$">>,
    <<"$","\\","s","q","r","t","{","x","^","2"," ","+"," ","y","^","2","}","$">>,
    <<"$","\\","s","q","r","t","{","x","}","$">>
}

(***************************************************************************)
(* The calls on an HTTPCodeFSM instance.                                   *)
(***************************************************************************)
HReset ==
    /\ http' = HTTPReset
    /\ op' = "reset" /\ arg' = <<>> /\ ret' = TRUE /\ pre' = http
    /\ UNCHANGED <<latex, fsm, attempts, frame>>

HProcessDigit ==
    \E digit \in DigitInputs :
        LET r == process_digit(http, digit) IN
        /\ http' = r.self
        /\ op' = "process_digit" /\ arg' = digit /\ ret' = r.ok /\ pre' = http
        /\ UNCHANGED <<latex, fsm, attempts, frame>>

HProcessInput ==
    \E input_str \in HTTPInputs :
        LET r == http_process_input(http, input_str) IN
        /\ http' = r.self
        /\ op' = "process_input" /\ arg' = input_str /\ ret' = r.ok /\ pre' = http
        /\ UNCHANGED <<latex, fsm, attempts, frame>>

\* generate_valid_completion reads the instance and assigns nothing
HGenerateValidCompletion ==
    /\ op' = "generate_valid_completion" /\ arg' = <<>>
    /\ ret' = generate_valid_completion(http) /\ pre' = http
    /\ UNCHANGED <<http, latex, fsm, attempts, frame>>

(***************************************************************************)
(* The calls on a LaTeXMathFSM instance.                                   *)
(***************************************************************************)
\* the instance stays within the explored bounds
InBounds(self) ==
    /\ Len(self.path) <= MaxPath
    /\ self.brace_depth <= MaxBrace
    /\ self.bracket_depth <= MaxDepth
    /\ self.paren_depth <= MaxDepth

LReset ==
    /\ latex' = LatexReset
    /\ op' = "reset" /\ arg' = <<>> /\ ret' = TRUE /\ pre' = latex
    /\ UNCHANGED <<http, fsm, attempts, frame>>

LProcessToken ==
    \E token \in TokenInputs :
        LET r == process_token(latex, token) IN
        /\ InBounds(r.self)
        /\ latex' = r.self
        /\ op' = "process_token" /\ arg' = token /\ ret' = r.ok /\ pre' = latex
        /\ UNCHANGED <<http, fsm, attempts, frame>>

LProcessInput ==
    \E latex_str \in LatexInputs :
        LET r == process_input(latex, latex_str) IN
        /\ InBounds(r.self)
        /\ latex' = r.self
        /\ op' = "process_input" /\ arg' = latex_str /\ ret' = r.ok /\ pre' = latex
        /\ UNCHANGED <<http, fsm, attempts, frame>>

(***************************************************************************)
(* Specifications: one instance of each automaton, freshly constructed,    *)
(* and any sequence of calls on it.                                        *)
(***************************************************************************)
HInit ==
    /\ http = HTTPReset /\ latex = LatexReset
    /\ fsm = create_json_fsm /\ attempts = NoAttempts /\ frame = NoFrame
    /\ op = "init" /\ arg = <<>> /\ ret = TRUE /\ pre = HTTPReset

HNext == HReset \/ HProcessDigit \/ HProcessInput \/ HGenerateValidCompletion

SpecHTTP == HInit /\ [][HNext]_vars

LInit ==
    /\ http = HTTPReset /\ latex = LatexReset
    /\ fsm = create_json_fsm /\ attempts = NoAttempts /\ frame = NoFrame
    /\ op = "init" /\ arg = <<>> /\ ret = TRUE /\ pre = LatexReset

LNext == LReset \/ LProcessToken \/ LProcessInput

SpecLatex == LInit /\ [][LNext]_vars

(***************************************************************************)
(* tokenize applied to every str of at most MaxStrLen characters.          *)
(***************************************************************************)
\* characters of the strs offered to tokenize: the backslash, the dollar,
\* the brackets, an ASCII and a non-ASCII letter, and a blank
TokenizeChars == {"\\", "$", "[", "]", "a", "é", " "}

\* the strs of exactly n characters over TokenizeChars
StrsOfLen(n) == [1..n -> TokenizeChars]

TokenizeInputs == UNION {StrsOfLen(n) : n \in 0..MaxStrLen}

\* a fresh instance and the str that tokenize is about to be given
TInit ==
    /\ http = HTTPReset /\ latex = LatexReset
    /\ fsm = create_json_fsm /\ attempts = NoAttempts /\ frame = NoFrame
    /\ op = "init" /\ arg \in TokenizeInputs /\ ret = TRUE /\ pre = LatexReset

\* tokenize returns the token list of its argument and leaves the instance
\* alone
LTokenize ==
    /\ op' = "tokenize" /\ ret' = tokenize(arg)
    /\ pre' = latex
    /\ UNCHANGED <<arg, http, latex, fsm, attempts, frame>>

TNext == LTokenize

SpecTokenize == TInit /\ [][TNext]_vars

(***************************************************************************)
(* The while loop of tokenize, one iteration at a time.  frame holds the   *)
(* locals latex_str, i and tokens; i is the source's index plus one.       *)
(***************************************************************************)
\* longest str given to the loop
MaxLoopLen == 4

LoopInputs == UNION {StrsOfLen(n) : n \in 0..MaxLoopLen}

\* the instances tokenize is called on: a fresh one and one in the middle
\* of an expression
LoopInstances == {LatexReset, process_input(LatexReset, <<"$", "a">>).self}

\* the loop body with a whitespace branch that continues without i += 1
TokenizeIteration_StaysOnWhitespace(s, i) ==
    LET char == s[i] IN
    IF IsSpaceChar(char) THEN [i |-> i, tokens |-> <<>>]
    ELSE IF char = "\\" THEN
        LET j == i + 1 IN
        IF j <= Len(s) /\ IsAlphaChar(s[j])
        THEN LET k == SkipAlpha(s, j)
             IN  [i |-> k, tokens |-> <<SubSeq(s, i, k - 1)>>]
        ELSE IF j <= Len(s)
        THEN [i |-> j + 1, tokens |-> <<SubSeq(s, i, j)>>]
        ELSE [i |-> i + 1, tokens |-> << <<char>> >>]
    ELSE IF char = "$" /\ i + 1 <= Len(s) /\ s[i + 1] = "$"
        THEN [i |-> i + 2, tokens |-> <<DDOLLAR>>]
    ELSE [i |-> i + 1, tokens |-> << <<char>> >>]

\* one pass through the loop body at index i: the index it leaves in i and
\* the tokens it appends
TokenizeIteration(s, i) ==
    LET char == s[i] IN
    IF IsSpaceChar(char) THEN [i |-> i + 1, tokens |-> <<>>]
    ELSE IF char = "\\" THEN
        LET j == i + 1 IN
        IF j <= Len(s) /\ IsAlphaChar(s[j])
        THEN LET k == SkipAlpha(s, j)
             IN  [i |-> k, tokens |-> <<SubSeq(s, i, k - 1)>>]
        ELSE IF j <= Len(s)
        THEN [i |-> j + 1, tokens |-> <<SubSeq(s, i, j)>>]
        ELSE [i |-> i + 1, tokens |-> << <<char>> >>]
    ELSE IF char = "$" /\ i + 1 <= Len(s) /\ s[i + 1] = "$"
        THEN [i |-> i + 2, tokens |-> <<DDOLLAR>>]
    ELSE IF char = "\\" /\ i + 1 <= Len(s) /\ s[i + 1] = "["
        THEN [i |-> i + 2, tokens |-> <<LBRACKET>>]
    ELSE IF char = "\\" /\ i + 1 <= Len(s) /\ s[i + 1] = "]"
        THEN [i |-> i + 2, tokens |-> <<RBRACKET>>]
    ELSE [i |-> i + 1, tokens |-> << <<char>> >>]

\* tokenize has just been called with latex_str: tokens = [], i = 0
TokenizeEntry(latex_str) ==
    [fn |-> "tokenize", latex_str |-> latex_str, i |-> 1, tokens |-> <<>>,
     pc |-> "while"]

TLInit ==
    /\ http = HTTPReset /\ latex \in LoopInstances
    /\ fsm = create_json_fsm /\ attempts = NoAttempts
    /\ \E latex_str \in LoopInputs : frame = TokenizeEntry(latex_str)
    /\ op = "init" /\ arg = <<>> /\ ret = <<>> /\ pre = latex

\* while i < len(latex_str): one pass through the body
TokenizeLoop ==
    /\ frame.fn = "tokenize" /\ frame.pc = "while"
    /\ frame.i <= Len(frame.latex_str)
    /\ LET it == TokenizeIteration(frame.latex_str, frame.i)
       IN  frame' = [frame EXCEPT !.i = it.i, !.tokens = @ \o it.tokens]
    /\ UNCHANGED <<http, latex, fsm, attempts, op, arg, ret, pre>>

\* the loop condition is false: return tokens
TokenizeReturn ==
    /\ frame.fn = "tokenize" /\ frame.pc = "while"
    /\ frame.i > Len(frame.latex_str)
    /\ frame' = [frame EXCEPT !.pc = "return"]
    /\ op' = "tokenize" /\ arg' = frame.latex_str /\ ret' = frame.tokens
    /\ pre' = latex
    /\ UNCHANGED <<http, latex, fsm, attempts>>

TLNext == TokenizeLoop \/ TokenizeReturn

\* a call that has started keeps running: nothing suspends the loop
SpecTokenizeLoop == TLInit /\ [][TLNext]_vars /\ WF_vars(TLNext)

(***************************************************************************)
(* One automaton instance of either class and any sequence of calls on     *)
(* it: the instance the calls are made on is the one recorded in pre.      *)
(***************************************************************************)
OnHTTP == "current_code" \in DOMAIN pre

Init == HInit \/ LInit

Next == (OnHTTP /\ HNext) \/ (~OnHTTP /\ LNext)

Spec == Init /\ [][Next]_vars

(***************************************************************************)
(* The calls on a FiniteStateMachine instance: one of the machines of the  *)
(* builders and tests, freshly built, and any sequence of reset,           *)
(* transition and _validate_response_with_fsm calls on it.                 *)
(***************************************************************************)
\* longest FiniteStateMachine.history explored
MaxHistory == 6

\* texts offered to transition and _validate_response_with_fsm: addresses,
\* JSON fragments, the phrases of the tests, blank and empty strs
FSMTexts == {
    <<"u", "s", "e", "r", "@", "d", "o", "m", "a", "i", "n", ".", "c", "o", "m">>,
    <<"i", "n", "v", "a", "l", "i", "d", ".", "e", "m", "a", "i", "l">>,
    <<"a", "@", "b", ".", "c", "o">>,
    <<"a", "@", "b", ".", "c">>,
    <<"@">>,
    <<>>,
    <<" ">>,
    <<"a", "@", "b", ".", "c", "o", "\n">>,
    <<" ", "a">>,
    <<"{", "\"", "n", "a", "m", "e", "\"", ":", " ", "\"", "J", "o", "h", "n", "\"", ",", " ", "\"", "a", "g", "e", "\"", ":", " ", "3", "0", "}">>,
    <<"{", "\"", "i", "n", "v", "a", "l", "i", "d", "\"", ":", " ", "j", "s", "o", "n">>,
    <<"{", "}">>,
    <<"{">>,
    <<"i", "n", "v", "a", "l", "i", "d", " ", "j", "s", "o", "n">>,
    <<"\"", "k", "\"">>,
    <<":">>,
    <<"1">>,
    <<"2">>,
    <<"1", "2">>,
    <<",">>,
    <<"}">>,
    <<"l", "e", "t", "'", "s", " ", "g", "o">>,
    <<"f", "i", "n", "i", "s", "h", " ", "n", "o", "w">>,
    <<"G", "O">>
}

FReset ==
    /\ fsm' = fsm_reset(fsm)
    /\ op' = "reset" /\ arg' = <<>> /\ ret' = "None" /\ pre' = fsm
    /\ UNCHANGED <<http, latex, attempts, frame>>

FTransition ==
    \E input_text \in FSMTexts :
        LET r == transition(fsm, input_text) IN
        /\ Len(r.self.history) <= MaxHistory
        /\ fsm' = r.self
        /\ op' = "transition" /\ arg' = input_text /\ ret' = r.ret /\ pre' = fsm
        /\ UNCHANGED <<http, latex, attempts, frame>>

FValidate ==
    \E text \in FSMTexts :
        LET r == _validate_response_with_fsm(text, fsm) IN
        /\ fsm' = r.self
        /\ op' = "_validate_response_with_fsm" /\ arg' = text
        /\ ret' = r.ret /\ pre' = fsm
        /\ UNCHANGED <<http, latex, attempts, frame>>

FCanAccept ==
    \E text \in FSMTexts :
        LET r == _can_fsm_accept_text(text, fsm) IN
        /\ fsm' = r.self
        /\ op' = "_can_fsm_accept_text" /\ arg' = text
        /\ ret' = r.ret /\ pre' = fsm
        /\ UNCHANGED <<http, latex, attempts, frame>>

FValidatePartial ==
    \E text \in FSMTexts :
        LET r == _validate_partial_response_with_fsm(text, fsm) IN
        /\ fsm' = r.self
        /\ op' = "_validate_partial_response_with_fsm" /\ arg' = text
        /\ ret' = r.ret /\ pre' = fsm
        /\ UNCHANGED <<http, latex, attempts, frame>>

FInit ==
    /\ http = HTTPReset /\ latex = LatexReset /\ attempts = NoAttempts /\ frame = NoFrame
    /\ fsm \in {create_json_fsm, create_email_fsm, basic_fsm, history_fsm}
    /\ op = "init" /\ arg = <<>> /\ ret = "None" /\ pre = fsm

FNext == FReset \/ FTransition \/ FValidate \/ FCanAccept \/ FValidatePartial

SpecFSM == FInit /\ [][FNext]_vars

(***************************************************************************)
(* Two validation attempts, each on an instance of its own, whose          *)
(* process_digit or process_token calls interleave in any order.  A list   *)
(* field is a reference: the instance holds the identity of its path list  *)
(* and the heap holds the list, so that two instances holding the same     *)
(* list would see each other's appends.                                    *)
(***************************************************************************)
\* one list made once, at class level, and bound to the path of every
\* instance
PathObject_ClassLevel(i) == 1

\* the list object bound to self.path by the reset() of attempt i's
\* instance: the list display ["start"] makes a new list at every call
PathObject(i) == i

\* attempt i's instance as its own methods see it: path read through the
\* reference
Deref(att, i) == [att.inst[i] EXCEPT !.path = att.heap[att.inst[i].path]]

\* the fields of attempt i's instance after a call that left it as self:
\* the scalar fields are rebound on the instance, the appends to path land
\* in the list the instance refers to
Store(att, i, self) ==
    [att EXCEPT !.inst[i] = [self EXCEPT !.path = att.inst[i].path],
                !.heap[att.inst[i].path] = self.path]

\* two new instances of the class of kind: __init__ calls reset()
NewAttempts(kind, script1, script2) ==
    LET fresh == IF kind = "http" THEN HTTPReset ELSE LatexReset IN
    [kind |-> kind,
     inst |-> <<[fresh EXCEPT !.path = PathObject(1)],
                [fresh EXCEPT !.path = PathObject(2)]>>,
     heap |-> [a \in {PathObject(1), PathObject(2)} |-> fresh.path],
     script |-> <<script1, script2>>,
     results |-> <<<<>>, <<>>>>]

\* digit sequences of the attempts on HTTPCodeFSM instances
DigitScripts == {
    <<>>,
    <<<<"4">>, <<"0">>, <<"4">>>>,
    <<<<"2">>, <<"0">>, <<"0">>>>,
    <<<<"4">>, <<"a">>, <<"4">>>>,
    <<<<"9">>, <<"9">>>>,
    <<<<"5">>, <<"0">>, <<"3">>, <<"1">>>>
}

\* token sequences of the attempts on LaTeXMathFSM instances
TokenScripts == {
    <<>>,
    <<DOLLAR, <<"x">>, DOLLAR>>,
    <<DOLLAR, <<"x">>, <<"^">>, <<"2">>, DOLLAR>>,
    <<DDOLLAR, <<"\\","f","r","a","c">>, <<"{">>, <<"a">>, <<"}">>>>,
    <<<<"x">>, DOLLAR, <<"(">>, DOLLAR>>,
    <<LBRACKET, <<"|">>, <<"]">>, RBRACKET>>
}

\* attempt i makes its next process_digit call
AProcessDigit ==
    \E i \in 1..2 :
        /\ attempts.kind = "http"
        /\ Len(attempts.results[i]) < Len(attempts.script[i])
        /\ LET digit == attempts.script[i][Len(attempts.results[i]) + 1]
               self == Deref(attempts, i)
               r == process_digit(self, digit)
           IN  /\ attempts' = [Store(attempts, i, r.self) EXCEPT
                                  !.results[i] = Append(@, r.ok)]
               /\ op' = "process_digit" /\ arg' = digit /\ ret' = r.ok
               /\ pre' = self
        /\ UNCHANGED <<http, latex, fsm, frame>>

\* attempt i makes its next process_token call
AProcessToken ==
    \E i \in 1..2 :
        /\ attempts.kind = "latex"
        /\ Len(attempts.results[i]) < Len(attempts.script[i])
        /\ LET token == attempts.script[i][Len(attempts.results[i]) + 1]
               self == Deref(attempts, i)
               r == process_token(self, token)
           IN  /\ attempts' = [Store(attempts, i, r.self) EXCEPT
                                  !.results[i] = Append(@, r.ok)]
               /\ op' = "process_token" /\ arg' = token /\ ret' = r.ok
               /\ pre' = self
        /\ UNCHANGED <<http, latex, fsm, frame>>

AInit ==
    /\ http = HTTPReset /\ latex = LatexReset /\ fsm = create_json_fsm
    /\ frame = NoFrame
    /\ \/ \E s1 \in DigitScripts, s2 \in DigitScripts :
              attempts = NewAttempts("http", s1, s2)
       \/ \E s1 \in TokenScripts, s2 \in TokenScripts :
              attempts = NewAttempts("latex", s1, s2)
    /\ op = "init" /\ arg = <<>> /\ ret = TRUE /\ pre = Deref(attempts, 1)

ANext == AProcessDigit \/ AProcessToken

SpecAttempts == AInit /\ [][ANext]_vars

(***************************************************************************)
(* SimpleGroqClient.generate_valid_latex_with_fsm                          *)
(* (src/src/llm/simple_client.py), one pass of its for loop at a time.     *)
(* frame holds the locals prompt, position and result_expr, the tokens     *)
(* accepted so far and the number of process_token calls; latex is the     *)
(* fsm argument.                                                           *)
(***************************************************************************)
\* max_tokens = 20
max_tokens == 20

\* the list returned by get_current_possibilities(): its elements, and
\* the tokens that can stand first in it (a list built from a set puts
\* any of the set's elements first)
PossibilityList(self) ==
    [elems |-> get_current_possibilities(self),
     first |-> IF self.state = "start" THEN {DOLLAR}
               ELSE IF self.state \in {"math_mode", "superscript", "subscript",
                                       "brace_open", "content"}
               THEN VALID_VARIABLES
               ELSE IF self.state \in {"command", "fraction_num", "fraction_den"}
               THEN {<<"{">>}
               ELSE {}]

\* the first token of the preference list that is among the possibilities,
\* as a set of at most one token
FirstAvailable(preferred, elems) ==
    LET found == {k \in 1..Len(preferred) : preferred[k] \in elems}
    IN  IF found = {} THEN {}
        ELSE {preferred[CHOOSE k \in found : \A m \in found : k <= m]}

\* any(char in current_expr for char in "xyzabc123")
HasSimpleContent(current_expr) ==
    \E k \in 1..Len(current_expr) :
        current_expr[k] \in {"x", "y", "z", "a", "b", "c", "1", "2", "3"}

\* the state-based choices of _choose_latex_token, as a set of at most one
\* token
StateBasedChoice(possibilities, state) ==
    IF state = "start" THEN FirstAvailable(<<DOLLAR>>, possibilities.elems)
    ELSE IF state = "math_mode" THEN
        FirstAvailable(<< <<"x">>, <<"y">>, <<"z">>, <<"a">>, <<"b">>, <<"1">>,
                          <<"2">>, <<"+">> >>, possibilities.elems)
    ELSE IF state \in {"superscript", "subscript"} THEN
        FirstAvailable(<< <<"2">>, <<"i">>, <<"n">>, <<"1">>, <<"{">> >>,
                       possibilities.elems)
    ELSE IF state = "fraction_num" THEN
        FirstAvailable(<< <<"{">> >>, possibilities.elems)
    ELSE IF state = "content" THEN
        FirstAvailable(<< <<"a">>, <<"b">>, <<"x">>, <<"y">>, <<"1">>, <<"2">>,
                          <<"}">> >>, possibilities.elems)
    ELSE {}

\* _choose_latex_token: the tokens it can return (one, unless it falls
\* back on possibilities[0] of a list built from a set); the empty set
\* stands for None
_choose_latex_token(prompt, possibilities, state, current_expr) ==
    LET prompt_lower == Lower(prompt)
        has(word)    == Contains(prompt_lower, word)
        offered(tok) == tok \in possibilities.elems
    IN  IF offered(DOLLAR) /\ Len(current_expr) > 3 /\ HasSimpleContent(current_expr)
        THEN {DOLLAR}
        ELSE IF has(<<"f","r","a","c","t","i","o","n">>) /\ offered(<<"\\","f","r","a","c">>)
        THEN {<<"\\","f","r","a","c">>}
        ELSE IF has(<<"s","q","u","a","r","e">>) /\ offered(<<"^">>)
        THEN {<<"^">>}
        ELSE IF has(<<"s","u","b","s","c","r","i","p","t">>) /\ offered(<<"_">>)
        THEN {<<"_">>}
        ELSE IF has(<<"a","l","p","h","a">>) /\ offered(<<"\\","a","l","p","h","a">>)
        THEN {<<"\\","a","l","p","h","a">>}
        ELSE IF has(<<"b","e","t","a">>) /\ offered(<<"\\","b","e","t","a">>)
        THEN {<<"\\","b","e","t","a">>}
        ELSE LET byState == StateBasedChoice(possibilities, state)
             IN  IF byState # {} THEN byState ELSE possibilities.first

\* the return without the final is_complete() test
FinalResult_Unvalidated(self, result_expr) == result_expr

\* the value returned after the loop: result_expr if the automaton is
\* complete, the fallback "$x$" otherwise
FinalResult(self, result_expr) ==
    IF is_complete(self) THEN result_expr ELSE <<"$", "x", "$">>

\* the prompts offered
Prompts == {
    <<>>,
    <<"x", " ", "p", "l", "u", "s", " ", "y">>,
    <<"A", " ", "F", "r", "a", "c", "t", "i", "o", "n">>,
    <<"x", " ", "s", "q", "u", "a", "r", "e", "d">>,
    <<"s", "u", "b", "s", "c", "r", "i", "p", "t", " ", "i">>,
    <<"A", "l", "p", "h", "a">>,
    <<"b", "e", "t", "a">>,
    <<"s", "q", "u", "a", "r", "e", " ", "o", "f", " ", "a", " ", "f", "r", "a", "c", "t", "i", "o", "n">>,
    <<"a", "l", "p", "h", "a", " ", "a", "n", "d", " ", "b", "e", "t", "a">>,
    <<"s", "u", "b", "s", "c", "r", "i", "p", "t", " ", "s", "q", "u", "a", "r", "e", "d">>
}

\* generate_valid_latex_with_fsm has just been called with prompt
GenerateEntry(prompt) ==
    [fn |-> "generate_valid_latex_with_fsm", prompt |-> prompt, position |-> 0,
     result_expr |-> <<>>, accepted |-> <<>>, calls |-> 0, pc |-> "reset"]

GInit ==
    /\ http = HTTPReset /\ latex \in LoopInstances
    /\ fsm = create_json_fsm /\ attempts = NoAttempts
    /\ \E prompt \in Prompts : frame = GenerateEntry(prompt)
    /\ op = "init" /\ arg = <<>> /\ ret = <<>> /\ pre = latex

\* fsm.reset(); result_expr = ""
GenerateReset ==
    /\ frame.fn = "generate_valid_latex_with_fsm" /\ frame.pc = "reset"
    /\ latex' = LatexReset
    /\ frame' = [frame EXCEPT !.pc = "for"]
    /\ UNCHANGED <<http, fsm, attempts, op, arg, ret, pre>>

\* one pass of "for position in range(max_tokens)": leave the loop if
\* nothing is possible; otherwise choose a token and process it, leaving
\* the loop if it is rejected or completes the expression
GenerateIteration ==
    /\ frame.fn = "generate_valid_latex_with_fsm" /\ frame.pc = "for"
    /\ frame.position < max_tokens
    /\ LET possibilities == PossibilityList(latex)
           chosen == _choose_latex_token(frame.prompt, possibilities,
                                         latex.state, frame.result_expr)
       IN  IF possibilities.elems = {} \/ chosen = {}
           THEN /\ frame' = [frame EXCEPT !.pc = "after"]
                /\ UNCHANGED latex
           ELSE \E chosen_token \in chosen :
                LET r == process_token(latex, chosen_token) IN
                /\ latex' = r.self
                /\ frame' =
                     IF r.ok
                     THEN [frame EXCEPT
                             !.result_expr = @ \o chosen_token,
                             !.accepted = Append(@, chosen_token),
                             !.calls = @ + 1,
                             !.position = @ + 1,
                             !.pc = IF is_complete(r.self) THEN "after" ELSE "for"]
                     ELSE [frame EXCEPT !.calls = @ + 1, !.pc = "after"]
    /\ UNCHANGED <<http, fsm, attempts, op, arg, ret, pre>>

\* after the loop (left by break or by exhausting the range): return
GenerateReturn ==
    /\ frame.fn = "generate_valid_latex_with_fsm"
    /\ \/ frame.pc = "after"
       \/ frame.pc = "for" /\ frame.position = max_tokens
    /\ frame' = [frame EXCEPT !.pc = "return"]
    /\ op' = "generate_valid_latex_with_fsm" /\ arg' = frame.prompt
    /\ ret' = FinalResult(latex, frame.result_expr)
    /\ pre' = latex
    /\ UNCHANGED <<http, latex, fsm, attempts>>

GNext == GenerateReset \/ GenerateIteration \/ GenerateReturn

SpecGenerate == GInit /\ [][GNext]_vars

(***************************************************************************)
(* ConstrainedLLM.generate_continuous_with_constraints                     *)
(* (src/src/llm/groq_client.py), one pass of its while loop at a time.     *)
(* fsm is the fsm argument; frame holds the locals generated_text,         *)
(* total_tokens and max_tokens, the number of passes made and how the      *)
(* last pass went.  What client.generate returns is any chunk with any     *)
(* token count, or an exception.                                           *)
(***************************************************************************)
\* largest max_tokens given to the function
MaxTokens == 2

\* passes of the loop body explored
MaxPasses == 3

\* the texts of the responses
Chunks == {<<"{">>, <<"}">>, <<"x">>, <<"g", "o">>, <<>>}

\* the tokens_used of the responses
TokensUsed == 0..2

\* what client.generate does: return a response or raise
Responses ==
    {[raises |-> TRUE, text |-> <<>>, tokens_used |-> 0]}
    \cup [raises : {FALSE}, text : Chunks, tokens_used : TokensUsed]

\* the machines passed as fsm
Machines == {create_json_fsm, create_email_fsm, basic_fsm, bare_fsm, direct_fsm}

\* the except clause: re-raise as RuntimeError if nothing was generated,
\* otherwise append the forced completion and leave the loop
ExceptionHandler(self, f) ==
    IF f.generated_text = <<>>
    THEN [self |-> self, frame |-> [f EXCEPT !.pc = "raised", !.outcome = "failed"]]
    ELSE [self |-> self,
          frame |-> [f EXCEPT
                       !.generated_text =
                           @ \o _force_completion_to_final_state(@, self),
                       !.pc = "after", !.outcome = "failed"]]

\* the else branch of the body: the first candidate was rejected; second
\* is the response to the prompt with the rejection guidance
RejectedBranch(self, f, second) ==
    IF second.raises THEN ExceptionHandler(self, f)
    ELSE
    LET candidate_text == f.generated_text \o second.text
        can == _can_fsm_accept_text(candidate_text, self)
    IN  IF can.ret = "IndexError" THEN ExceptionHandler(can.self, f)
        ELSE IF can.ret = "False" THEN
            LET valid_continuation == _generate_minimal_valid_continuation(can.self)
                f2 == [f EXCEPT
                         !.generated_text = @ \o valid_continuation,
                         !.total_tokens = @ + SplitCount(valid_continuation),
                         !.outcome = "minimal"]
                u  == _update_fsm_with_text(f2.generated_text, can.self)
            IN  IF u.raises THEN ExceptionHandler(u.self, f2)
                ELSE [self |-> u.self, frame |-> f2]
        ELSE
            LET f2 == [f EXCEPT
                         !.generated_text = candidate_text,
                         !.total_tokens = @ + second.tokens_used,
                         !.outcome = "retried"]
                u  == _update_fsm_with_text(candidate_text, can.self)
            IN  IF u.raises THEN ExceptionHandler(u.self, f2)
                ELSE [self |-> u.self, frame |-> f2]

\* one pass through the body of the while loop, given what the first and
\* (if asked) the second call of client.generate do
LoopBody(self, f, first, second) ==
    IF first.raises THEN ExceptionHandler(self, f)
    ELSE
    LET candidate_text == f.generated_text \o first.text
        can == _can_fsm_accept_text(candidate_text, self)
    IN  IF can.ret = "IndexError" THEN ExceptionHandler(can.self, f)
        ELSE IF can.ret = "True" THEN
            LET f1 == [f EXCEPT
                         !.generated_text = candidate_text,
                         !.total_tokens = @ + first.tokens_used,
                         !.outcome = "accepted"]
                u  == _update_fsm_with_text(candidate_text, can.self)
            IN  IF u.raises THEN ExceptionHandler(u.self, f1)
                ELSE [self |-> u.self,
                      frame |-> [f1 EXCEPT
                                   !.pc = IF is_final_state(u.self)
                                          THEN "after" ELSE "while"]]
        ELSE RejectedBranch(can.self, f, second)

\* the function has just been called with max_tokens
ContinuousEntry(max_tokens_arg) ==
    [fn |-> "generate_continuous_with_constraints", pc |-> "entry",
     generated_text |-> <<>>, total_tokens |-> 0, max_tokens |-> max_tokens_arg,
     passes |-> 0, outcome |-> "none", finish_reason |-> "none"]

\* the function is called with one of the machines, fresh or already
\* driven by a text
CInit ==
    /\ http = HTTPReset /\ latex = LatexReset /\ attempts = NoAttempts
    /\ \E m \in Machines, x \in Chunks : fsm = transition(m, x).self
    /\ \E n \in 1..MaxTokens : frame = ContinuousEntry(n)
    /\ op = "init" /\ arg = <<>> /\ ret = "None" /\ pre = fsm

\* fsm.reset(); generated_text = ""; total_tokens = 0
ContinuousEnter ==
    /\ frame.fn = "generate_continuous_with_constraints" /\ frame.pc = "entry"
    /\ fsm' = fsm_reset(fsm)
    /\ frame' = [frame EXCEPT !.pc = "while"]
    /\ UNCHANGED <<http, latex, attempts, op, arg, ret, pre>>

\* while total_tokens < max_tokens and not fsm.is_final_state()
LoopCondition == frame.total_tokens < frame.max_tokens /\ ~is_final_state(fsm)

\* the loop condition holds: one pass through the body
ContinuousIteration ==
    /\ frame.fn = "generate_continuous_with_constraints" /\ frame.pc = "while"
    /\ LoopCondition
    /\ frame.passes < MaxPasses
    /\ \E first \in Responses, second \in Responses :
           LET b == LoopBody(fsm, frame, first, second) IN
           /\ fsm' = b.self
           /\ frame' = [b.frame EXCEPT !.passes = @ + 1]
    /\ UNCHANGED <<http, latex, attempts, op, arg, ret, pre>>

\* the loop condition fails: leave the loop
ContinuousLoopExit ==
    /\ frame.fn = "generate_continuous_with_constraints" /\ frame.pc = "while"
    /\ ~LoopCondition
    /\ frame' = [frame EXCEPT !.pc = "after"]
    /\ UNCHANGED <<http, latex, fsm, attempts, op, arg, ret, pre>>

\* return LLMResponse(text, tokens_used, finish_reason, ...)
ContinuousReturn ==
    /\ frame.fn = "generate_continuous_with_constraints" /\ frame.pc = "after"
    /\ frame' = [frame EXCEPT
                   !.pc = "return",
                   !.finish_reason = IF is_final_state(fsm) THEN "stop" ELSE "length"]
    /\ op' = "generate_continuous_with_constraints"
    /\ arg' = <<>> /\ ret' = frame.generated_text /\ pre' = fsm
    /\ UNCHANGED <<http, latex, fsm, attempts>>

CNext ==
    ContinuousEnter \/ ContinuousIteration \/ ContinuousLoopExit \/ ContinuousReturn

SpecContinuous == CInit /\ [][CNext]_vars

(***************************************************************************)
(* Properties of HTTPCodeFSM (checked under SpecHTTP).                     *)
(***************************************************************************)
\* s is exactly three ASCII decimal digits whose value is a registered code
IsRegisteredCode(s) ==
    /\ Len(s) = 3
    /\ \A i \in 1..Len(s) : s[i] \in AsciiDigits
    /\ StrToInt(s) \in VALID_CODES

\* C1 (as stated): on a fresh or just reset HTTPCodeFSM, process_input(code)
\* returns true if and only if code is exactly three decimal digits and its
\* value is in VALID_CODES.
C1_ExactlyThreeDigits ==
    (op = "process_input" /\ pre = HTTPReset) => (ret <=> IsRegisteredCode(arg))

\* C1 (amended): on a fresh or just reset HTTPCodeFSM, process_input(code)
\* returns true if and only if code, with its leading and trailing
\* whitespace removed, is exactly three ASCII decimal digits and its value
\* is in VALID_CODES.
C1_SetMembershipLaw ==
    (op = "process_input" /\ pre = HTTPReset) => (ret <=> IsRegisteredCode(Strip(arg)))

\* process_input on a fresh instance accepted a registered code that came
\* padded with whitespace
C1_Witness ==
    /\ op = "process_input" /\ pre = HTTPReset /\ ret
    /\ arg = <<" ", "4", "0", "4", " ">>
    /\ http.current_code = <<"4", "0", "4">>

\* C2: process_input resets the automaton first, so its return value is the
\* one a freshly reset instance gives for the same input, whatever state the
\* instance was in before the call.
C2_ResultIndependentOfPriorState ==
    op = "process_input" => ret = http_process_input(HTTPReset, arg).ok

\* C4: whenever process_digit returns false, state, current_code and path
\* are what they were before the call.
C4_NoPartialMutationHTTP ==
    (op = "process_digit" /\ ~ret) => http = pre

\* process_digit rejected a digit in second_digit, after two accepted digits
C4_Witness ==
    /\ op = "process_digit" /\ ~ret
    /\ pre.state = "second_digit" /\ Len(pre.current_code) = 2
    /\ arg \in {<<DigitSeq[i]>> : i \in 1..10}

\* the one-digit strs
OneDigitStrs == {<<DigitSeq[i]>> : i \in 1..10}

\* the elements of a list
Elements(lst) == {lst[i] : i \in 1..Len(lst)}

\* C7: a digit is accepted by process_digit if and only if it is in
\* get_current_possibilities(); in second_digit with prefix p the
\* possibilities are exactly the digits d with int(p + d) in VALID_CODES.
C7_PossibilitiesExactHTTP ==
    /\ \A d \in OneDigitStrs :
          process_digit(http, d).ok <=> d \in Elements(http_get_current_possibilities(http))
    /\ http.state = "second_digit" =>
          Elements(http_get_current_possibilities(http))
            = {d \in OneDigitStrs : StrToInt(http.current_code \o d) \in VALID_CODES}

\* after the digits 4 and 0 all ten digits are possible
C7_Witness ==
    /\ op = "process_digit" /\ ret
    /\ http.state = "second_digit" /\ http.current_code = <<"4", "0">>
    /\ Elements(http_get_current_possibilities(http)) = OneDigitStrs

\* C8: in state third_digit (is_complete() is true) current_code is three
\* digits whose value is in VALID_CODES.
C8_CompleteIsRegistered ==
    http_is_complete(http) => IsRegisteredCode(http.current_code)

\* three process_digit calls assembled 404
C8_Witness ==
    /\ op = "process_digit" /\ ret
    /\ http_is_complete(http) /\ http.current_code = <<"4", "0", "4">>

(***************************************************************************)
(* Properties of LaTeXMathFSM (checked under SpecLatex).                   *)
(***************************************************************************)
\* C3: whenever process_token returns false, every field of the automaton
\* (state, the three depths, math_mode_type, path) is what it was before the
\* call, in every state, brace_open included.
C3_NoPartialMutationLatex ==
    (op = "process_token" /\ ~ret) => latex = pre

\* C5: every token of get_current_possibilities() is accepted by
\* process_token in the current state.
C5_PossibilitiesAccepted ==
    \A token \in get_current_possibilities(latex) : process_token(latex, token).ok

\* C6: every token that process_token accepts in the current state is in
\* get_current_possibilities().
C6_AcceptedArePossible ==
    \A token \in TokenInputs :
        process_token(latex, token).ok => token \in get_current_possibilities(latex)

\* the terminal state with all three counters at zero
TerminalAndBalanced(self) ==
    /\ self.state = "end_state"
    /\ self.brace_depth = 0 /\ self.bracket_depth = 0 /\ self.paren_depth = 0

\* every token of the list is accepted, folding from self
RECURSIVE AllAccepted(_, _)
AllAccepted(self, tokens) ==
    \/ Len(tokens) = 0
    \/ /\ process_token(self, Head(tokens)).ok
       /\ AllAccepted(process_token(self, Head(tokens)).self, Tail(tokens))

\* C9: is_complete() is true exactly in end_state with the three depths at
\* zero, and process_input returns true only if every token was accepted
\* and is_complete() holds afterwards.
C9_CompletenessLaw ==
    /\ is_complete(latex) <=> TerminalAndBalanced(latex)
    /\ (op = "process_input" /\ ret) =>
          /\ TerminalAndBalanced(latex)
          /\ AllAccepted(pre, tokenize(arg))

\* process_input accepted every token of "$($" and returned false, because
\* end_state was reached with an open parenthesis
C9_Witness ==
    /\ op = "process_input" /\ ~ret /\ pre = LatexReset
    /\ arg = <<"$", "(", "$">>
    /\ latex.state = "end_state" /\ latex.paren_depth = 1
    /\ ~is_complete(latex)

\* C10: end_state is entered only on the closer of the flavor the opener
\* set; a closer of the other flavor is rejected, "$x + y$$" is never
\* accepted, and math_mode_type does not change between the opener and
\* reset.
C10_FlavorMatches ==
    /\ (op = "process_token" /\ ret /\ pre.state = "start") =>
          latex.math_mode_type = (IF arg = DOLLAR THEN "inline" ELSE "display")
    /\ (op = "process_token" /\ ret /\ latex.state = "end_state") =>
          \/ pre.math_mode_type = "inline" /\ arg = DOLLAR
          \/ pre.math_mode_type = "display" /\ arg \in {DDOLLAR, RBRACKET}
    /\ (op = "process_token" /\ pre.state = "math_mode" /\
        pre.math_mode_type = "inline" /\ arg \in {DDOLLAR, RBRACKET}) => ~ret
    /\ (op = "process_token" /\ pre.state = "math_mode" /\
        pre.math_mode_type = "display" /\ arg = DOLLAR) => ~ret
    /\ (op = "process_input" /\ arg = <<"$","x"," ","+"," ","y","$","$">>) => ~ret
    /\ (op # "reset" /\ pre.math_mode_type # "None") =>
          latex.math_mode_type = pre.math_mode_type

\* "$x + y$$" on a fresh instance: rejected at the display closer, the
\* automaton still in inline math mode
C10_Witness ==
    /\ op = "process_input" /\ ~ret /\ pre = LatexReset
    /\ arg = <<"$","x"," ","+"," ","y","$","$">>
    /\ latex.state = "math_mode" /\ latex.math_mode_type = "inline"

(***************************************************************************)
(* Properties settled with the tokenizer and the combined specification.   *)
(***************************************************************************)
\* the tokens of the fixed tables: variables, digits, operators, commands,
\* delimiters, the math-mode openers and closers and the script operators
FixedAlphabet ==
    VALID_VARIABLES \cup VALID_NUMBERS \cup VALID_OPERATORS
    \cup get_valid_commands \cup VALID_DELIMITERS
    \cup {DOLLAR, DDOLLAR, LBRACKET, RBRACKET, <<"^">>, <<"_">>}

\* C11 (as stated): in every state process_token rejects every token that
\* is not in the fixed alphabet and command tables; an unknown command is
\* rejected wherever it is offered.
C11_RejectedEverywhere ==
    (op = "process_token" /\ arg \notin FixedAlphabet) => ~ret

\* C11 (amended): process_token rejects every token that is not in the
\* fixed alphabet and command tables, except that in content and
\* brace_open every token that starts with a backslash is accepted; an
\* unknown command is rejected in every other state.
C11_AlphabetClosure ==
    (op = "process_token" /\ arg \notin FixedAlphabet) =>
        (ret <=> (pre.state \in {"content", "brace_open"} /\ StartsWith(arg, <<"\\">>)))

\* the unknown command \foo was rejected in math_mode
C11_Witness ==
    /\ op = "process_token" /\ ~ret
    /\ pre.state = "math_mode" /\ arg = <<"\\","f","o","o">>
    /\ latex = pre

\* C12: reset() after any sequence of calls leaves exactly the instance a
\* constructor gives (initial state, empty accumulated value, counters
\* zero, no flavor, path = [start]); a reset() that follows a reset()
\* changes nothing.
C12_ResetLaw ==
    op = "reset" =>
        /\ http.state = "start" /\ http.current_code = <<>> /\ http.path = <<"start">>
        /\ latex.state = "start" /\ latex.path = <<"start">>
        /\ latex.brace_depth = 0 /\ latex.bracket_depth = 0 /\ latex.paren_depth = 0
        /\ latex.math_mode_type = "None"
        /\ latex.current_expression = <<>> /\ latex.command_buffer = <<>>
        /\ latex.environment_stack = <<>>
        /\ (OnHTTP /\ pre.path = <<"start">>) => http = pre
        /\ (~OnHTTP /\ pre.path = <<"start">>) => latex = pre

\* reset() was called on a LaTeXMathFSM that had opened \begin{ in display
\* math
C12_Witness ==
    /\ op = "reset" /\ ~OnHTTP
    /\ pre.state = "brace_open" /\ pre.brace_depth = 1
    /\ pre.math_mode_type = "display" /\ pre.command_buffer # <<>>
    /\ latex.state = "start"

\* number of tokens of the list equal to t
RECURSIVE CountToken(_, _)
CountToken(tokens, t) ==
    IF Len(tokens) = 0 THEN 0
    ELSE (IF Head(tokens) = t THEN 1 ELSE 0) + CountToken(Tail(tokens), t)

\* the str opens more braces than it closes
OpensMoreThanCloses(latex_str) ==
    CountToken(tokenize(latex_str), <<"{">>) > CountToken(tokenize(latex_str), <<"}">>)

\* C14: an automaton in end_state with a nonzero brace depth is not
\* complete, and process_input never accepts an input that opens more
\* braces than it closes, such as "$\frac{a$".
C14_BraceBalanceLaw ==
    /\ (latex.state = "end_state" /\ latex.brace_depth # 0) => ~is_complete(latex)
    /\ (op = "process_input" /\ OpensMoreThanCloses(arg)) => ~ret

\* every token of "$\frac{a" was accepted on a fresh instance and the call
\* returned false with the brace still open
C14_Witness ==
    /\ op = "process_input" /\ ~ret /\ pre = LatexReset
    /\ arg = <<"$","\\","f","r","a","c","{","a">>
    /\ AllAccepted(pre, tokenize(arg))
    /\ latex.state = "content" /\ latex.brace_depth = 1

\* C15: get_current_possibilities() is empty exactly when no token (digit)
\* is accepted in the current state; whenever it is empty every
\* process_token / process_digit call returns false.
C15_EmptyIffStuck ==
    /\ (get_current_possibilities(latex) = {})
          <=> (\A token \in TokenInputs : ~process_token(latex, token).ok)
    /\ (http_get_current_possibilities(http) = <<>>)
          <=> (\A digit \in DigitInputs : ~process_digit(http, digit).ok)
    /\ (op = "process_token" /\ get_current_possibilities(pre) = {}) => ~ret
    /\ (op = "process_digit" /\ http_get_current_possibilities(pre) = <<>>) => ~ret

\* a third digit was refused after the prefix 19, which no registered code
\* extends: the automaton is stuck in second_digit with nothing possible
C15_Witness ==
    /\ op = "process_digit" /\ ~ret
    /\ pre.state = "second_digit" /\ pre.current_code = <<"1", "9">>
    /\ http_get_current_possibilities(pre) = <<>>
    /\ ~http_is_complete(http)

\* C16: brace_depth, bracket_depth and paren_depth are never negative.
C16_CountersNonNegative ==
    /\ latex.brace_depth >= 0
    /\ latex.bracket_depth >= 0
    /\ latex.paren_depth >= 0

\* a closing parenthesis brought paren_depth back to zero
C16_Witness ==
    /\ op = "process_token" /\ ret /\ arg = <<")">>
    /\ pre.paren_depth = 1 /\ latex.paren_depth = 0

\* C17: len(current_code) never exceeds 3 and is the number of digits
\* accepted since the last reset: 0 in start, 1 in first_digit, 2 in
\* second_digit and 3 in third_digit.
C17_CodeLengthTracksState ==
    /\ Len(http.current_code) <= 3
    /\ Len(http.current_code) = Len(http.path) - 1
    /\ http.state = "start" => Len(http.current_code) = 0
    /\ http.state = "first_digit" => Len(http.current_code) = 1
    /\ http.state = "second_digit" => Len(http.current_code) = 2
    /\ http.state = "third_digit" => Len(http.current_code) = 3
    /\ (op = "process_digit" /\ ret) => Len(http.current_code) = Len(pre.current_code) + 1
    /\ (op = "process_digit" /\ ~ret) => Len(http.current_code) = Len(pre.current_code)

\* the second digit was accepted and current_code holds two digits
C17_Witness ==
    /\ op = "process_digit" /\ ret
    /\ pre.state = "first_digit" /\ http.state = "second_digit"
    /\ http.current_code = <<"5", "1">>

(***************************************************************************)
(* Properties of tokenize (checked under SpecTokenize).                    *)
(***************************************************************************)
\* the first index from i on whose character is not whitespace, or
\* Len(s) + 1
RECURSIVE FirstNonSpace(_, _)
FirstNonSpace(s, i) ==
    IF i <= Len(s) /\ IsSpaceChar(s[i]) THEN FirstNonSpace(s, i + 1) ELSE i

\* where each token of the list starts in s, if the tokens are laid on s
\* from index i with only whitespace between them
RECURSIVE TokenStarts(_, _, _)
TokenStarts(s, i, tokens) ==
    IF Len(tokens) = 0 THEN <<>>
    ELSE LET p == FirstNonSpace(s, i)
         IN  <<p>> \o TokenStarts(s, p + Len(Head(tokens)), Tail(tokens))

\* the tokens are non-empty pieces of s, in order, and cover every
\* character of s but whitespace between them
Aligned(s, tokens) ==
    LET st == TokenStarts(s, 1, tokens)
        n  == Len(tokens)
    IN  /\ \A k \in 1..n :
              /\ Len(tokens[k]) > 0
              /\ st[k] + Len(tokens[k]) - 1 <= Len(s)
              /\ SubSeq(s, st[k], st[k] + Len(tokens[k]) - 1) = tokens[k]
        /\ FirstNonSpace(s, IF n = 0 THEN 1 ELSE st[n] + Len(tokens[n])) = Len(s) + 1

BackslashTokenAt(s, p, token) ==
    IF p = Len(s) THEN token = <<"\\">>
    ELSE IF IsAlphaChar(s[p + 1])
    THEN \E q \in (p + 1)..Len(s) :
            /\ \A m \in (p + 1)..q : IsAlphaChar(s[m])
            /\ q = Len(s) \/ ~IsAlphaChar(s[q + 1])
            /\ token = SubSeq(s, p, q)
    ELSE token = SubSeq(s, p, p + 1)

\* C19: a backslash followed by letters yields exactly one token, the
\* backslash and the maximal run of letters; a backslash followed by a
\* non-letter yields one two-character token; a backslash that is the last
\* character yields the token "\"; the empty str yields no token.
C19_BackslashRule ==
    op = "tokenize" =>
        /\ Aligned(arg, ret)
        /\ \A k \in 1..Len(ret) :
              ret[k][1] = "\\" =>
                  BackslashTokenAt(arg, TokenStarts(arg, 1, ret)[k], ret[k])
        /\ arg = <<>> => ret = <<>>

\* "\aé$\" gave the command \aé, the dollar and the lone backslash
C19_Witness ==
    /\ op = "tokenize"
    /\ arg = <<"\\", "a", "é", "$", "\\">>
    /\ ret = <<<<"\\", "a", "é">>, <<"$">>, <<"\\">>>>

\* the token that starts at index p of s, where s[p] is not a backslash:
\* two dollar signs together, or the single character
PlainTokenAt(s, p, token) ==
    IF s[p] = "$" /\ p < Len(s) /\ s[p + 1] = "$" THEN token = DDOLLAR
    ELSE token = <<s[p]>>

\* index i of s is where the k-th token starts, and that token is t
IsTokenAt(s, tokens, i, t) ==
    \E k \in 1..Len(tokens) : TokenStarts(s, 1, tokens)[k] = i /\ tokens[k] = t

\* C20 (as stated): wherever "$$", "\[" or "\]" occur in the str they are
\* single tokens, two adjacent dollar signs always being paired from the
\* left end of their run, and every other non-whitespace character is a
\* one-character token.
C20_WhereverTheyOccur ==
    op = "tokenize" =>
        /\ \A i \in 1..(Len(arg) - 1) :
              SubSeq(arg, i, i + 1) \in {LBRACKET, RBRACKET} =>
                  IsTokenAt(arg, ret, i, SubSeq(arg, i, i + 1))
        /\ \A i \in 1..(Len(arg) - 1) :
              (SubSeq(arg, i, i + 1) = DDOLLAR /\ (i = 1 \/ arg[i - 1] # "$")) =>
                  IsTokenAt(arg, ret, i, DDOLLAR)

\* C20 (amended): wherever "$$", "\[" or "\]" begin at a token boundary,
\* that is unless their first character is the second character of a
\* preceding backslash token, they are single tokens, dollar signs being
\* paired from the boundary on; every other non-whitespace character
\* outside a backslash token is a one-character token.
C20_DelimiterRule ==
    op = "tokenize" =>
        /\ Aligned(arg, ret)
        /\ \A k \in 1..Len(ret) :
              LET p == TokenStarts(arg, 1, ret)[k] IN
              /\ (p < Len(arg) /\ SubSeq(arg, p, p + 1) \in {DDOLLAR, LBRACKET, RBRACKET})
                    => ret[k] = SubSeq(arg, p, p + 1)
              /\ arg[p] # "\\" => PlainTokenAt(arg, p, ret[k])

\* "$$$\]" gave the tokens $$, $ and \]
C20_Witness ==
    /\ op = "tokenize"
    /\ arg = <<"$", "$", "$", "\\", "]">>
    /\ ret = <<DDOLLAR, DOLLAR, RBRACKET>>

(***************************************************************************)
(* C25: the openers of state start.                                        *)
(***************************************************************************)
\* the brace, bracket and parenthesis counters of an instance are all zero
CountersZero(self) ==
    self.brace_depth = 0 /\ self.bracket_depth = 0 /\ self.paren_depth = 0

\* C25: a process_token call made in state start returns true exactly for
\* the tokens $, $$ and \[; after an accepted opener the state is math_mode,
\* the flavor is inline for $ and display for $$ and \[, and every counter
\* is zero.
C25_StartAcceptsOpeners ==
    (op = "process_token" /\ pre.state = "start") =>
        /\ ret = (arg \in {<<"$">>, <<"$", "$">>, <<"\\", "[">>})
        /\ ret => /\ latex.state = "math_mode"
                  /\ latex.math_mode_type =
                        (IF arg = <<"$">> THEN "inline" ELSE "display")
                  /\ CountersZero(latex)

\* \[ was offered in state start and opened a display expression
C25_Witness ==
    /\ op = "process_token" /\ pre.state = "start"
    /\ arg = <<"\\", "[">> /\ ret = TRUE
    /\ latex.state = "math_mode" /\ latex.math_mode_type = "display"

(***************************************************************************)
(* C26: the script states.                                                 *)
(***************************************************************************)
\* a token that is one variable letter or one decimal digit
IsSingleVarOrDigit(token) ==
    Len(token) = 1 /\ (token[1] \in Letters \/ token[1] \in AsciiDigits)

\* the counters of two instances agree
SameCounters(a, b) ==
    /\ a.brace_depth = b.brace_depth
    /\ a.bracket_depth = b.bracket_depth
    /\ a.paren_depth = b.paren_depth

\* C26: a process_token call made in state superscript or subscript returns
\* true exactly for { and for a single variable or digit character; { adds
\* one to the brace depth and moves to content, the single character moves
\* to math_mode with the counters unchanged, and a rejected token (a
\* math-mode closer included) leaves the state where it was.  On a fresh
\* instance process_input("$x^2$") returns true in end_state, and
\* process_input("$x^$") returns false having stopped in superscript at the
\* final $.
C26_ScriptLaw ==
    /\ (op = "process_token" /\ pre.state \in {"superscript", "subscript"}) =>
          /\ ret = (arg = <<"{">> \/ IsSingleVarOrDigit(arg))
          /\ arg = <<"{">> =>
                /\ latex.state = "content"
                /\ latex.brace_depth = pre.brace_depth + 1
                /\ latex.bracket_depth = pre.bracket_depth
                /\ latex.paren_depth = pre.paren_depth
          /\ IsSingleVarOrDigit(arg) =>
                latex.state = "math_mode" /\ SameCounters(latex, pre)
          /\ ~ret => latex.state = pre.state /\ SameCounters(latex, pre)
    /\ (op = "process_input" /\ pre = LatexReset
            /\ arg = <<"$", "x", "^", "2", "$">>) =>
          /\ ret = TRUE
          /\ latex.state = "end_state" /\ CountersZero(latex)
          /\ latex.path = <<"start", "math_mode", "superscript", "math_mode",
                            "end_state">>
    /\ (op = "process_input" /\ pre = LatexReset
            /\ arg = <<"$", "x", "^", "$">>) =>
          /\ ret = FALSE
          /\ latex.state = "superscript"
          /\ latex.path = <<"start", "math_mode", "superscript">>

\* the closing $ of an inline expression was offered right after ^ and
\* rejected
C26_Witness ==
    /\ op = "process_token" /\ pre.state = "superscript"
    /\ pre.math_mode_type = "inline" /\ arg = <<"$">>
    /\ ret = FALSE /\ latex.state = "superscript"

(***************************************************************************)
(* C27: state content.                                                     *)
(***************************************************************************)
\* C27: for a process_token call made in state content: } is accepted,
\* takes one from the brace depth and moves to math_mode exactly when the
\* depth has become zero, the state staying content otherwise; { is
\* accepted, adds one to the brace depth and stays in content; a variable,
\* digit, operator or token starting with a backslash is accepted and
\* leaves the state, the counters and the path as they were.
C27_ContentLaw ==
    (op = "process_token" /\ pre.state = "content") =>
        /\ arg = <<"}">> =>
              /\ ret = TRUE
              /\ latex.brace_depth = pre.brace_depth - 1
              /\ latex.bracket_depth = pre.bracket_depth
              /\ latex.paren_depth = pre.paren_depth
              /\ latex.state = (IF latex.brace_depth = 0 THEN "math_mode"
                                ELSE "content")
        /\ arg = <<"{">> =>
              /\ ret = TRUE
              /\ latex.brace_depth = pre.brace_depth + 1
              /\ latex.bracket_depth = pre.bracket_depth
              /\ latex.paren_depth = pre.paren_depth
              /\ latex.state = "content"
        /\ (\/ IsSingleVarOrDigit(arg)
            \/ arg \in VALID_OPERATORS
            \/ (Len(arg) > 0 /\ arg[1] = "\\")) =>
              ret = TRUE /\ latex = pre

\* } closed the inner of two nested brace groups: the depth went from two
\* to one and the state stayed content
C27_Witness ==
    /\ op = "process_token" /\ pre.state = "content"
    /\ arg = <<"}">> /\ ret = TRUE
    /\ pre.brace_depth = 2 /\ latex.brace_depth = 1
    /\ latex.state = "content"

(***************************************************************************)
(* C28: parentheses, brackets and bars in math_mode.                       *)
(***************************************************************************)
\* the closers ) and ] of math_mode: accepted exactly when their counter is
\* positive, taking one from it; rejected with the instance unchanged
\* otherwise
ClosersGuarded ==
    /\ arg = <<")">> =>
          /\ ret = (pre.paren_depth > 0)
          /\ ret => /\ latex.paren_depth = pre.paren_depth - 1
                    /\ latex.bracket_depth = pre.bracket_depth
                    /\ latex.brace_depth = pre.brace_depth
          /\ ~ret => latex = pre
    /\ arg = <<"]">> =>
          /\ ret = (pre.bracket_depth > 0)
          /\ ret => /\ latex.bracket_depth = pre.bracket_depth - 1
                    /\ latex.paren_depth = pre.paren_depth
                    /\ latex.brace_depth = pre.brace_depth
          /\ ~ret => latex = pre

\* C28 as stated: for a process_token call made in math_mode, each of (, [
\* and | is accepted, stays in math_mode and adds one to a parenthesis or
\* bracket counter; ) and ] are accepted only when their counter is
\* positive.
C28_EveryOpenerCounts ==
    (op = "process_token" /\ pre.state = "math_mode") =>
        /\ arg \in {<<"(">>, <<"[">>, <<"|">>} =>
              /\ ret = TRUE /\ latex.state = "math_mode"
              /\ latex.paren_depth + latex.bracket_depth =
                    pre.paren_depth + pre.bracket_depth + 1
        /\ arg \in {<<")">>, <<"]">>} => latex.state = "math_mode"
        /\ ClosersGuarded

\* C28, amended: for a process_token call made in math_mode, ( adds one to
\* the parenthesis counter and [ adds one to the bracket counter; | is
\* accepted and changes no counter at all; ) and ] are accepted exactly
\* when their own counter is positive and take one from it, and are
\* otherwise rejected with the instance unchanged; in every case the state
\* stays math_mode.
C28_DelimiterCounters ==
    (op = "process_token" /\ pre.state = "math_mode") =>
        /\ arg = <<"(">> =>
              /\ ret = TRUE
              /\ latex = [pre EXCEPT !.paren_depth = pre.paren_depth + 1]
        /\ arg = <<"[">> =>
              /\ ret = TRUE
              /\ latex = [pre EXCEPT !.bracket_depth = pre.bracket_depth + 1]
        /\ arg = <<"|">> => ret = TRUE /\ latex = pre
        /\ arg \in {<<"(">>, <<"[">>, <<"|">>, <<")">>, <<"]">>} =>
              latex.state = "math_mode"
        /\ ClosersGuarded

\* | was offered in math_mode inside an open parenthesis and accepted with
\* the counters as they were
C28_Witness ==
    /\ op = "process_token" /\ pre.state = "math_mode"
    /\ arg = <<"|">> /\ ret = TRUE
    /\ pre.paren_depth = 1 /\ latex = pre

(***************************************************************************)
(* C29: the states that wait for an opening brace.                         *)
(***************************************************************************)
\* the outcome r of offering token to the instance self is: { accepted
\* with one more open brace and the state target, anything else rejected
\* with the instance unchanged
OnlyBraceAccepted(self, token, r, target) ==
    /\ r.ok = (token = <<"{">>)
    /\ r.ok => /\ r.self.state = target
               /\ r.self.brace_depth = self.brace_depth + 1
               /\ r.self.bracket_depth = self.bracket_depth
               /\ r.self.paren_depth = self.paren_depth
    /\ ~r.ok => r.self = self

\* C29: a process_token call made in state command, fraction_num or
\* fraction_den returns true exactly for {, which adds one to the brace
\* depth and moves command to brace_open and the fraction states to
\* content; every other token is rejected.  No sequence of calls enters
\* fraction_den, so its handler is applied to the instance of every state
\* reached in fraction_num with the state name replaced.
C29_OnlyBraceLaw ==
    /\ (op = "process_token" /\ pre.state = "command") =>
          OnlyBraceAccepted(pre, arg, [ok |-> ret, self |-> latex], "brace_open")
    /\ (op = "process_token" /\ pre.state = "fraction_num") =>
          OnlyBraceAccepted(pre, arg, [ok |-> ret, self |-> latex], "content")
    /\ latex.state = "fraction_num" =>
          \A token \in TokenInputs :
              LET den == [latex EXCEPT !.state = "fraction_den"] IN
              OnlyBraceAccepted(den, token, process_token(den, token), "content")

\* a bare numerator was offered right after \frac and rejected
C29_Witness ==
    /\ op = "process_token" /\ pre.state = "fraction_num"
    /\ arg = <<"x">> /\ ret = FALSE /\ latex = pre

(***************************************************************************)
(* C30: scripts inside a brace group.                                      *)
(***************************************************************************)
\* C30: a process_token call made in state content or brace_open with ^ or
\* _ returns true, and process_input on a fresh instance returns true for
\* "$x^{2^3}$" and for "$\sqrt{x^2 + y^2}$".
C30_ScriptsInsideBraces ==
    /\ (op = "process_token" /\ pre.state \in {"content", "brace_open"}
            /\ arg \in {<<"^">>, <<"_">>}) => ret = TRUE
    /\ (op = "process_input" /\ pre = LatexReset
            /\ arg \in {<<"$","x","^","{","2","^","3","}","$">>,
                        <<"$","\\","s","q","r","t","{","x","^","2"," ","+",
                          " ","y","^","2","}","$">>}) => ret = TRUE

(***************************************************************************)
(* Properties of FiniteStateMachine (checked under SpecFSM).               *)
(***************************************************************************)
\* C21: history is the sequence of the states visited: it is
\* [initial_state], with current_state the initial state, after
\* construction and after reset(); a transition() that returns true appends
\* exactly the new current_state, which is the target of a transition
\* leaving the previous state; a transition() that returns false leaves
\* current_state and history as they were; and after every call the last
\* element of history is current_state.
C21_HistoryLaw ==
    /\ op \in {"init", "reset"} =>
          /\ fsm.history = <<fsm.initial_state>>
          /\ fsm.current_state = fsm.initial_state
    /\ (op = "transition" /\ ret = "True") =>
          /\ fsm.history = pre.history \o <<fsm.current_state>>
          /\ \E i \in 1..Len(pre.transitions) :
                /\ pre.transitions[i].from_state = pre.current_state
                /\ pre.transitions[i].to_state = fsm.current_state
    /\ (op = "transition" /\ ret = "False") =>
          /\ fsm.current_state = pre.current_state
          /\ fsm.history = pre.history
    /\ Len(fsm.history) >= 1
    /\ fsm.history[Len(fsm.history)] = fsm.current_state

\* the machine of test_state_history after transition("1") and
\* transition("2")
C21_Witness ==
    /\ op = "transition" /\ ret = "True" /\ arg = <<"2">>
    /\ pre.history = <<"a", "b">>
    /\ fsm.history = <<"a", "b", "c">> /\ fsm.current_state = "c"

\* well-formed addresses among the texts offered
WellFormedEmails ==
    {<<"u", "s", "e", "r", "@", "d", "o", "m", "a", "i", "n", ".", "c", "o", "m">>,
     <<"a", "@", "b", ".", "c", "o">>}

\* texts offered that are not addresses
NotEmails ==
    {<<"i", "n", "v", "a", "l", "i", "d", ".", "e", "m", "a", "i", "l">>,
     <<"@">>, <<>>, <<" ">>, <<"{", "}">>, <<"1">>}

\* C22: a single transition(text) call on the email machine of
\* create_email_fsm, made right after reset(), returns true and leaves the
\* machine in a final state when text is a well-formed address, and does
\* not both return true and end in a final state when text is not an
\* address.
C22_EmailInOneCall ==
    (op = "transition" /\ pre = fsm_reset(create_email_fsm)) =>
        /\ arg \in WellFormedEmails => (ret = "True" /\ is_final_state(fsm))
        /\ arg \in NotEmails => ~(ret = "True" /\ is_final_state(fsm))

\* C23: _validate_response_with_fsm(text, fsm) with the machine of
\* create_json_fsm returns true when text is a well-formed JSON object and
\* false when text is malformed, such as an object opened with { and never
\* closed.
C23_ValidatesJson ==
    (op = "_validate_response_with_fsm" /\ fsm_reset(pre) = create_json_fsm) =>
        /\ arg \in {<<"{", "\"", "n", "a", "m", "e", "\"", ":", " ", "\"", "J",
                      "o", "h", "n", "\"", ",", " ", "\"", "a", "g", "e", "\"",
                      ":", " ", "3", "0", "}">>,
                    <<"{", "}">>} => ret = "True"
        /\ arg \in {<<"{", "\"", "i", "n", "v", "a", "l", "i", "d", "\"", ":",
                      " ", "j", "s", "o", "n">>,
                    <<"{">>,
                    <<"i", "n", "v", "a", "l", "i", "d", " ", "j", "s", "o", "n">>}
              => ret = "False"

(***************************************************************************)
(* Properties of interleaved attempts (checked under SpecAttempts).        *)
(***************************************************************************)
\* the first n calls of a script made on one instance with nothing else
\* running: the list of the values returned and the instance at the end
RECURSIVE RunAlone(_, _, _)
RunAlone(kind, script, n) ==
    IF n = 0
    THEN [results |-> <<>>,
          self |-> IF kind = "http" THEN HTTPReset ELSE LatexReset]
    ELSE LET p == RunAlone(kind, script, n - 1)
             r == IF kind = "http" THEN process_digit(p.self, script[n])
                  ELSE process_token(p.self, script[n])
         IN  [results |-> Append(p.results, r.ok), self |-> r.self]

\* C24: whatever the interleaving of the calls of two attempts that each
\* use an instance of their own, each attempt has so far been returned the
\* values, and its instance holds the state (path included), that the same
\* calls give when the attempt runs alone: no call of one attempt shows in
\* the instance of the other.
C24_NonInterference ==
    \A i \in 1..2 :
        LET n == Len(attempts.results[i])
            alone == RunAlone(attempts.kind, attempts.script[i], n)
        IN  /\ attempts.results[i] = alone.results
            /\ Deref(attempts, i) = alone.self

\* two attempts on LaTeXMathFSM instances: the second, rejected at its
\* first token, has run to its end while the first, accepted at every
\* step, has just made its fourth call
C24_Witness ==
    /\ attempts.kind = "latex"
    /\ attempts.script[1] = <<DOLLAR, <<"x">>, <<"^">>, <<"2">>, DOLLAR>>
    /\ attempts.script[2] = <<<<"x">>, DOLLAR, <<"(">>, DOLLAR>>
    /\ attempts.results[1] = <<TRUE, TRUE, TRUE, TRUE>>
    /\ attempts.results[2] = <<FALSE, TRUE, TRUE, TRUE>>
    /\ op = "process_token" /\ arg = <<"2">>

(***************************************************************************)
(* C31: HTTP two-phase filtering.                                          *)
(***************************************************************************)
\* some registered code starts with the digits of prefix (at most two
\* characters)
SomeCodeExtends(prefix) ==
    \E code \in VALID_CODES :
        IF Len(prefix) = 2 THEN code \div 10 = StrToInt(prefix)
        ELSE IF Len(prefix) = 1 THEN code \div 100 = StrToInt(prefix)
        ELSE TRUE

\* C31: a process_digit call made in start returns true exactly for the
\* digits 1 to 5; one made in first_digit returns true exactly for a single
\* digit 0 to 9, whatever the first digit, and then leaves the automaton in
\* second_digit with the digit appended; and in second_digit after a prefix
\* that no registered code extends (such as 19) the possibility list is
\* empty, every offered third digit is rejected with the instance
\* unchanged, and the automaton is not complete.
C31_TwoPhaseFiltering ==
    /\ (op = "process_digit" /\ pre.state = "start") =>
          ret = (arg \in {<<"1">>, <<"2">>, <<"3">>, <<"4">>, <<"5">>})
    /\ (op = "process_digit" /\ pre.state = "first_digit") =>
          /\ ret = (Len(arg) = 1 /\ arg[1] \in AsciiDigits)
          /\ ret => /\ http.state = "second_digit"
                    /\ http.current_code = pre.current_code \o arg
    /\ (http.state = "second_digit" /\ ~SomeCodeExtends(http.current_code)) =>
          /\ http_get_current_possibilities(http) = <<>>
          /\ ~http_is_complete(http)
          /\ \A digit \in DigitInputs :
                process_digit(http, digit) = [ok |-> FALSE, self |-> http]
    /\ (op = "process_digit" /\ pre.state = "second_digit"
            /\ ~SomeCodeExtends(pre.current_code)) =>
          ret = FALSE /\ http = pre

\* after 1 and 9 the automaton sat in second_digit and rejected a third
\* digit
C31_Witness ==
    /\ op = "process_digit" /\ pre.state = "second_digit"
    /\ pre.current_code = <<"1", "9">>
    /\ arg = <<"0">> /\ ret = FALSE /\ http = pre

(***************************************************************************)
(* C32: generate_valid_completion.                                         *)
(***************************************************************************)
\* C32: a generate_valid_completion call leaves the state, the code and the
\* path as they were; a value it returns is three ASCII digits naming a
\* registered code and starting with current_code; and in start,
\* first_digit and second_digit it returns None only when no registered
\* code extends current_code.
C32_CompletionLaw ==
    op = "generate_valid_completion" =>
        /\ http = pre
        /\ ret # <<>> =>
              /\ Len(ret) = 1
              /\ IsRegisteredCode(ret[1])
              /\ StartsWith(ret[1], pre.current_code)
        /\ (ret = <<>> /\ pre.state \in {"start", "first_digit", "second_digit"})
              => ~SomeCodeExtends(pre.current_code)

\* after 4 and 5 the completion proposed is 451, the only registered code
\* with that prefix
C32_Witness ==
    /\ op = "generate_valid_completion"
    /\ pre.state = "second_digit" /\ pre.current_code = <<"4", "5">>
    /\ ret = <<<<"4", "5", "1">>>>

(***************************************************************************)
(* C33: the path of both automata (checked under Spec).                    *)
(***************************************************************************)
\* the list a is a prefix of the list b
IsPrefix(a, b) == Len(a) <= Len(b) /\ SubSeq(b, 1, Len(a)) = a

\* C33: for both automata, a process_digit or process_token call leaves
\* the path it found as a prefix of the path after it, and adds nothing
\* when the state after the call is the state before it; and the last
\* element of path is always the current state.
C33_PathAppendOnly ==
    /\ op = "process_digit" =>
          /\ IsPrefix(pre.path, http.path)
          /\ http.state = pre.state => http.path = pre.path
    /\ op = "process_token" =>
          /\ IsPrefix(pre.path, latex.path)
          /\ latex.state = pre.state => latex.path = pre.path
    /\ http.path # <<>> /\ http.path[Len(http.path)] = http.state
    /\ latex.path # <<>> /\ latex.path[Len(latex.path)] = latex.state

\* a bare superscript was consumed: the path grew from
\* [start, math_mode, superscript] by math_mode
C33_Witness ==
    /\ op = "process_token" /\ ret = TRUE
    /\ pre.path = <<"start", "math_mode", "superscript">>
    /\ latex.path = <<"start", "math_mode", "superscript", "math_mode">>
    /\ latex.state = "math_mode"

RECURSIVE Concat(_)
Concat(tokens) ==
    IF Len(tokens) = 0 THEN <<>> ELSE Head(tokens) \o Concat(Tail(tokens))

\* the indexes of s that the tokens, laid on s in order, do not cover
SkippedIndexes(s, tokens) ==
    LET st == TokenStarts(s, 1, tokens)
    IN  {j \in 1..Len(s) :
            \A k \in 1..Len(tokens) :
                j < st[k] \/ j > st[k] + Len(tokens[k]) - 1}

\* s without the characters at the indexes in skipped
RECURSIVE Without(_, _, _)
Without(s, skipped, j) ==
    IF j > Len(s) THEN <<>>
    ELSE (IF j \in skipped THEN <<>> ELSE <<s[j]>>) \o Without(s, skipped, j + 1)

\* what holds of the locals of tokenize at every point of the loop, and of
\* the returned list
C39_LoopInvariant ==
    frame.fn = "tokenize" =>
        LET s    == frame.latex_str
            done == SubSeq(s, 1, frame.i - 1)
            skipped == SkippedIndexes(done, frame.tokens)
        IN  /\ frame.i \in 1..(Len(s) + 1)
            /\ \A k \in 1..Len(frame.tokens) : Len(frame.tokens[k]) > 0
            /\ Aligned(done, frame.tokens)
            /\ \A j \in skipped : IsSpaceChar(done[j])
            /\ Concat(frame.tokens) = Without(done, skipped, 1)
            /\ latex = pre
            /\ frame.pc = "return" =>
                   /\ frame.i = Len(s) + 1
                   /\ ret = frame.tokens /\ arg = s
                   /\ ret = tokenize(s)

\* C39: tokenize terminates on every input, emits only non-empty tokens
\* and loses nothing: the tokens joined in order are the input without the
\* whitespace characters it skipped, nothing dropped, duplicated or
\* reordered; and the call neither depends on nor changes the instance.
C39_TokenizeTotalAndLossless ==
    /\ [](C39_LoopInvariant)
    /\ <>(frame.fn = "tokenize" /\ frame.pc = "return")

\* a call on an instance in mid-expression has returned for a str with a
\* skipped blank, a blank kept after a backslash and a letter
C39_Witness ==
    /\ frame.fn = "tokenize" /\ frame.pc = "return"
    /\ latex # LatexReset
    /\ arg = <<" ", "\\", " ", "a">>
    /\ ret = << <<"\\", " ">>, <<"a">> >>

(***************************************************************************)
(* Properties of generate_valid_latex_with_fsm (checked under              *)
(* SpecGenerate).                                                          *)
(***************************************************************************)
\* C35: FSM-guided generation only emits valid expressions: the function
\* makes at most 20 process_token calls and returns a str that
\* process_input on a fresh instance accepts: the accepted tokens joined
\* in order if the automaton is complete after the loop, "$x$" otherwise.
C35_GeneratesValidLatex ==
    frame.fn = "generate_valid_latex_with_fsm" =>
        /\ frame.calls <= 20
        /\ frame.result_expr = Concat(frame.accepted)
        /\ frame.pc = "return" =>
               /\ process_input(LatexReset, ret).ok
               /\ is_complete(latex) => ret = Concat(frame.accepted)
               /\ ~is_complete(latex) => ret = <<"$", "x", "$">>

\* a run that used all 20 passes, every token accepted, and returned the
\* fallback because the automaton was left inside the numerator
C35_Witness ==
    /\ frame.fn = "generate_valid_latex_with_fsm" /\ frame.pc = "return"
    /\ frame.calls = 20 /\ Len(frame.accepted) = 20
    /\ latex.state = "content"
    /\ ret = <<"$", "x", "$">>
    /\ ~process_input(LatexReset, frame.result_expr).ok

\* a run that returned the tokens it generated
C35_WitnessComplete ==
    /\ frame.fn = "generate_valid_latex_with_fsm" /\ frame.pc = "return"
    /\ is_complete(latex)
    /\ ret = <<"$", "^", "2", "^", "2", "$">>

(***************************************************************************)
(* Properties of the probes of ConstrainedLLM (checked under SpecFSM).     *)
(***************************************************************************)
\* C34: speculative probing does not commit: after _can_fsm_accept_text
\* or _validate_partial_response_with_fsm the caller's instance has the
\* current_state, history, states and transitions it had before, whatever
\* the text and whatever the result.
C34_ProbeDoesNotCommit ==
    op \in {"_can_fsm_accept_text", "_validate_partial_response_with_fsm"} =>
        /\ fsm.current_state = pre.current_state
        /\ fsm.history = pre.history
        /\ fsm.states = pre.states
        /\ fsm.transitions = pre.transitions

\* the JSON machine two transitions in, probed with a text its copy
\* accepts from the initial state: the copy moved, the caller did not
C34_Witness ==
    /\ op = "_can_fsm_accept_text" /\ ret = "True"
    /\ arg = <<"{">>
    /\ fsm.history = <<"start", "object_start", "key">>
    /\ fsm.current_state = "key"

\* the partial probe says True for a text the copy cannot move on
C34_WitnessPartial ==
    /\ op = "_validate_partial_response_with_fsm" /\ ret = "True"
    /\ arg = <<"}">>
    /\ fsm.history = <<"start", "object_start", "key">>

(***************************************************************************)
(* Properties of generate_continuous_with_constraints (checked under       *)
(* SpecContinuous).                                                        *)
(***************************************************************************)
\* the call is inside the function, past its opening reset
InContinuous ==
    /\ frame.fn = "generate_continuous_with_constraints"
    /\ frame.pc # "entry"

\* C36 (as stated): every pass of the loop that does not leave the loop
\* strictly increases total_tokens, whatever the client returns and
\* whether the chunk is accepted, retried or replaced by the minimal
\* valid continuation.
C36_EveryPassCounts ==
    [][(/\ frame.fn = "generate_continuous_with_constraints"
        /\ frame.pc = "while" /\ frame'.pc = "while")
       => frame'.total_tokens > frame.total_tokens]_vars

\* passes that went round without counting anything: the chunk replaced
\* by an empty minimal continuation on a machine with no transition out of
\* its current state
C36_StuckOnEmptyContinuation ==
    /\ frame.fn = "generate_continuous_with_constraints" /\ frame.pc = "while"
    /\ frame.passes = MaxPasses /\ frame.outcome = "minimal"
    /\ frame.total_tokens = 0 /\ frame.generated_text = <<>>
    /\ LoopCondition

\* the machine is one of the two builder machines for JSON and email
IsBuilderMachine(self) ==
    \/ (self.states = create_json_fsm.states
        /\ self.transitions = create_json_fsm.transitions)
    \/ (self.states = create_email_fsm.states
        /\ self.transitions = create_email_fsm.transitions)

====
